---- MODULE Spec2Model ----
(***************************************************************************)
(* A model of source/fe/fe_raviart_thomas_nodal.cc (deal.II):              *)
(*   - the lazily filled prolongation/restriction matrix cache of one      *)
(*     FE_RaviartThomasNodal<2> object, used by several threads;           *)
(*   - the pure index tables and point sets of                             *)
(*     PolynomialsRaviartThomasNodal<dim> and FE_RaviartThomasNodal<dim>.  *)
(***************************************************************************)
EXTENDS Integers, Sequences, FiniteSets, TLC

\* ------------------------------------------------------------------ bounds
\* number of threads that share the element object
NThreads == 2

Threads == 1 .. NThreads

\* ------------------------------------------ geometry of the reference cell
\* RefinementCase<2>: no_refinement, cut_x, cut_y, cut_xy (= isotropic)
no_refinement == 0
isotropic_refinement == 3

RefCases == 1 .. isotropic_refinement

\* GeometryInfo<dim>::n_children(ref_case): 2^(number of cut directions)
n_children(rc) ==
  IF rc = no_refinement
    THEN 0
    ELSE 2 ^ ((rc % 2) + ((rc \div 2) % 2) + ((rc \div 4) % 2))

Children(rc) == 0 .. (n_children(rc) - 1)

\* dim * (degree + 2) * (degree + 1)^(dim - 1)
n_polynomials(dim, degree) == dim * (degree + 2) * ((degree + 1) ^ (dim - 1))

\* the shared object is FE_RaviartThomasNodal<2>(0)
n_dofs_per_cell == n_polynomials(2, 0)

\* ------------------------------------------------------- matrices (cache)
\* A FullMatrix<double> is abstracted to its column count n(), its entries
\* (val) and the number of the solver invocation that wrote the entries (by).
NoVal   == <<"none", 0, 0>>
ZeroVal == <<"zero", 0, 0>>

\* FullMatrix<double>(): the empty 0 x 0 matrix
EmptyMatrix == [n |-> 0, val |-> NoVal, by |-> 0]

\* FullMatrix<double>(n_dofs_per_cell, n_dofs_per_cell) / reinit(n, n):
\* allocated and set to zero
ZeroMatrix == [n |-> n_dofs_per_cell, val |-> ZeroVal, by |-> 0]

\* what the dense solver produces for child `child` of case `rc`; the solver
\* is a deterministic function of the element and the refinement description
Solved(tab, rc, child, k) ==
  [n |-> n_dofs_per_cell, val |-> <<tab, rc, child>>, by |-> k]

\* what a caller can see of a matrix: its size and its entries
View(m) == [n |-> m.n, val |-> m.val]

VARIABLES
  prolongation,  \* this->prolongation[refinement_case - 1][child]
  restriction,   \* this->restriction[refinement_case - 1][child]
  mutex,         \* this->mutex: 0 when free, else the thread that holds it
  pc,            \* where each thread is inside its accessor call
  req,           \* the accessor and the arguments of each thread's call
  local,         \* isotropic_matrices.back() of the thread inside the section
  nEmbed,        \* invocations of FETools::compute_embedding_matrices
  nProject,      \* invocations of FETools::compute_projection_matrices
  lastRet,       \* history: the latest returned matrix (key and view)
  warm,          \* history: view returned earlier for the key of this call
  allowed,       \* the calls the environment makes
  observe,       \* history: whether returned matrices are recorded
  fe_dim,        \* template argument dim of the element under construction
  fe_degree,     \* constructor argument degree
  stage,         \* "new" before the constructor body, "element" after it
  lexicographic_to_hierarchic,  \* PolynomialsRaviartThomasNodal member
  renumber_aniso,               \* PolynomialsRaviartThomasNodal member
  generalized_support_points,   \* FiniteElement member
  quad_index_table,  \* adjust_quad_dof_index_for_face_orientation_table[0]
  quad_sign_table,   \* adjust_quad_dof_sign_for_face_orientation_table[0]
  sign_fill,         \* what the base class filled the sign table with
  eval_point,        \* unit_point of the latest evaluate call
  eval_sized,        \* the derivative orders whose vector the caller sized
  eval_out,          \* the five output vectors of the latest evaluate call
  fe_call,           \* the latest call of a const member and its arguments
  fe_ret             \* how that call ended and what it produced

cacheVars == <<prolongation, restriction, mutex, pc, req, local, nEmbed,
               nProject, lastRet, warm, allowed, observe>>

polyVars == <<fe_dim, fe_degree, stage, lexicographic_to_hierarchic,
              renumber_aniso, generalized_support_points, quad_index_table,
              quad_sign_table, sign_fill, eval_point, eval_sized, eval_out,
              fe_call,
              fe_ret>>

vars == <<cacheVars, polyVars>>

NoReq  == [op |-> "-", rc |-> 0, child |-> 0]
NoRet  == [op |-> "-", rc |-> 0, child |-> 0, view |-> View(EmptyMatrix)]
Cold   == [n |-> 0, val |-> <<"cold", 0, 0>>]
NoLocal == << >>

\* the child indices callers pass for a refinement case: the first child,
\* the last child and the index one past the last child
ChildArgs(rc) == {0, n_children(rc) - 1, n_children(rc)} \cap Nat

\* every call a caller can write down: an accessor, a refinement case
\* (no_refinement included) and a child index
AllCalls ==
  UNION { { [op |-> o, rc |-> r, child |-> c] :
              o \in {"P", "R"}, c \in ChildArgs(r) } :
          r \in no_refinement .. isotropic_refinement }

\* the preconditions asserted at the head of both accessors
ValidCall(c) ==
  /\ c.rc < isotropic_refinement + 1
  /\ c.rc # no_refinement
  /\ c.child < n_children(c.rc)

\* the tables as the base class constructs them: one empty matrix per child
\* of every refinement case
EmptyTable == [rc \in RefCases |-> [c \in Children(rc) |-> EmptyMatrix]]

InitCache ==
  /\ prolongation = EmptyTable
  /\ restriction = EmptyTable
  /\ mutex = 0
  /\ pc = [t \in Threads |-> "idle"]
  /\ req = [t \in Threads |-> NoReq]
  /\ local = NoLocal
  /\ nEmbed = 0
  /\ nProject = 0
  /\ lastRet = NoRet
  /\ warm = [t \in Threads |-> Cold]

\* ---------------------------------------------------- callees (not in src)
\* FiniteElement::reinit_restriction_and_prolongation_matrices(): takes no
\* refinement case; every matrix of every case that does not have the full
\* size yet is allocated (and zeroed), the others are left alone
ReinitTable(tab) ==
  [rc \in RefCases |->
    [c \in Children(rc) |->
      IF tab[rc][c].n # n_dofs_per_cell THEN ZeroMatrix ELSE tab[rc][c]]]

\* FETools::compute_embedding_matrices(fe, matrices) and
\* FETools::compute_projection_matrices(fe, matrices), isotropic_only = false:
\* fill the matrices of all children of every refinement case of the table
ComputeAll(name, k) ==
  [rc \in RefCases |-> [c \in Children(rc) |-> Solved(name, rc, c, k)]]

\* the same with isotropic_only = true on a vector that holds one zero matrix
\* per child of the isotropic case
ComputeIsotropic(name, k) ==
  [c \in Children(isotropic_refinement) |->
     Solved(name, isotropic_refinement, c, k)]

\* ------------------------------------------------ get_prolongation_matrix
\* entry into the accessor with the mutex taken ahead of the assertions
CallProlongationLockBeforeAssert(t) ==
  /\ pc[t] = "idle"
  /\ mutex = 0
  /\ \E c \in allowed :
       /\ c.op = "P"
       /\ req' = [req EXCEPT ![t] = c]
       /\ pc' = [pc EXCEPT ![t] = IF ValidCall(c) THEN "check" ELSE "failed"]
       /\ mutex' = IF ValidCall(c) THEN 0 ELSE t
       /\ warm' = [warm EXCEPT ![t] =
                     IF <<lastRet.op, lastRet.rc, lastRet.child>>
                          = <<c.op, c.rc, c.child>>
                       THEN lastRet.view ELSE Cold]
  /\ UNCHANGED <<prolongation, restriction, local, nEmbed, nProject,
                 lastRet, allowed, observe, polyVars>>

\* entry into the accessor: the three assertions
CallProlongation(t) ==
  /\ pc[t] = "idle"
  /\ \E c \in allowed :
       /\ c.op = "P"
       /\ req' = [req EXCEPT ![t] = c]
       /\ pc' = [pc EXCEPT ![t] = IF ValidCall(c) THEN "check" ELSE "failed"]
       /\ warm' = [warm EXCEPT ![t] =
                     IF <<lastRet.op, lastRet.rc, lastRet.child>>
                          = <<c.op, c.rc, c.child>>
                       THEN lastRet.view ELSE Cold]
  /\ UNCHANGED <<prolongation, restriction, mutex, local, nEmbed, nProject,
                 lastRet, allowed, observe, polyVars>>

\* if (prolongation[refinement_case - 1][child].n() == 0), read without lock
ProlongationCheck(t) ==
  /\ pc[t] = "check" /\ req[t].op = "P"
  /\ pc' = [pc EXCEPT ![t] =
              IF prolongation[req[t].rc][req[t].child].n = 0
                THEN "lock" ELSE "return"]
  /\ UNCHANGED <<prolongation, restriction, mutex, req, local, nEmbed,
                 nProject, lastRet, warm, allowed, observe, polyVars>>

\* the mutex taken without waiting for its holder
ProlongationLockNoWait(t) ==
  /\ pc[t] = "lock" /\ req[t].op = "P"
  /\ mutex' = t
  /\ pc' = [pc EXCEPT ![t] = "recheck"]
  /\ UNCHANGED <<prolongation, restriction, req, local, nEmbed, nProject,
                 lastRet, warm, allowed, observe, polyVars>>

\* std::lock_guard<std::mutex> lock(this->mutex)
ProlongationLock(t) ==
  /\ pc[t] = "lock" /\ req[t].op = "P"
  /\ mutex = 0
  /\ mutex' = t
  /\ pc' = [pc EXCEPT ![t] = "recheck"]
  /\ UNCHANGED <<prolongation, restriction, req, local, nEmbed, nProject,
                 lastRet, warm, allowed, observe, polyVars>>

\* the re-check under the lock left out
ProlongationRecheckMissing(t) ==
  /\ pc[t] = "recheck" /\ req[t].op = "P"
  /\ pc' = [pc EXCEPT ![t] =
              IF req[t].rc = isotropic_refinement
                THEN "compute" ELSE "reinit"]
  /\ UNCHANGED <<prolongation, restriction, mutex, req, local, nEmbed,
                 nProject, lastRet, warm, allowed, observe, polyVars>>

\* the re-check under the lock and the choice of the branch
ProlongationRecheck(t) ==
  /\ pc[t] = "recheck" /\ req[t].op = "P"
  /\ pc' = [pc EXCEPT ![t] =
              IF prolongation[req[t].rc][req[t].child].n = n_dofs_per_cell
                THEN "early"
                ELSE IF req[t].rc = isotropic_refinement
                       THEN "compute" ELSE "reinit"]
  /\ UNCHANGED <<prolongation, restriction, mutex, req, local, nEmbed,
                 nProject, lastRet, warm, allowed, observe, polyVars>>

\* the early return with the mutex still held
ProlongationEarlyReturnKeepsLock(t) ==
  /\ pc[t] = "early" /\ req[t].op = "P"
  /\ pc' = [pc EXCEPT ![t] = "return"]
  /\ UNCHANGED <<prolongation, restriction, mutex, req, local, nEmbed,
                 nProject, lastRet, warm, allowed, observe, polyVars>>

\* return under the lock: the guard's destructor releases the mutex
ProlongationEarlyReturn(t) ==
  /\ pc[t] = "early" /\ req[t].op = "P"
  /\ mutex' = 0
  /\ pc' = [pc EXCEPT ![t] = "return"]
  /\ UNCHANGED <<prolongation, restriction, req, local, nEmbed, nProject,
                 lastRet, warm, allowed, observe, polyVars>>

\* isotropic branch: a local vector is sized and handed to the solver
ProlongationComputeIsotropic(t) ==
  /\ pc[t] = "compute" /\ req[t].op = "P"
  /\ nEmbed' = nEmbed + 1
  /\ local' = ComputeIsotropic("P", nEmbed + 1)
  /\ pc' = [pc EXCEPT ![t] = "swap"]
  /\ UNCHANGED <<prolongation, restriction, mutex, req, nProject, lastRet,
                 warm, allowed, observe, polyVars>>

\* this_nonconst.prolongation[refinement_case - 1].swap(...)
ProlongationSwap(t) ==
  /\ pc[t] = "swap" /\ req[t].op = "P"
  /\ prolongation' = [prolongation EXCEPT ![req[t].rc] = local]
  /\ local' = prolongation[req[t].rc]
  /\ pc' = [pc EXCEPT ![t] = "unlock"]
  /\ UNCHANGED <<restriction, mutex, req, nEmbed, nProject, lastRet, warm,
                 allowed, observe, polyVars>>

\* anisotropic branch, first statement
ProlongationReinit(t) ==
  /\ pc[t] = "reinit" /\ req[t].op = "P"
  /\ prolongation' = ReinitTable(prolongation)
  /\ restriction' = ReinitTable(restriction)
  /\ pc' = [pc EXCEPT ![t] = "embed"]
  /\ UNCHANGED <<mutex, req, local, nEmbed, nProject, lastRet, warm, allowed, observe, polyVars>>

\* anisotropic branch, second statement
ProlongationEmbed(t) ==
  /\ pc[t] = "embed" /\ req[t].op = "P"
  /\ nEmbed' = nEmbed + 1
  /\ prolongation' = ComputeAll("P", nEmbed + 1)
  /\ pc' = [pc EXCEPT ![t] = "project"]
  /\ UNCHANGED <<restriction, mutex, req, local, nProject, lastRet, warm,
                 allowed, observe, polyVars>>

\* the projection matrices of the anisotropic branch left uncomputed
ProlongationProjectSkipped(t) ==
  /\ pc[t] = "project" /\ req[t].op = "P"
  /\ pc' = [pc EXCEPT ![t] = "unlock"]
  /\ UNCHANGED <<prolongation, restriction, mutex, req, local, nEmbed,
                 nProject, lastRet, warm, allowed, observe, polyVars>>

\* anisotropic branch, third statement
ProlongationProject(t) ==
  /\ pc[t] = "project" /\ req[t].op = "P"
  /\ nProject' = nProject + 1
  /\ restriction' = ComputeAll("R", nProject + 1)
  /\ pc' = [pc EXCEPT ![t] = "unlock"]
  /\ UNCHANGED <<prolongation, mutex, req, local, nEmbed, lastRet, warm,
                 allowed, observe, polyVars>>

\* end of the guarded block: locals are destroyed, the mutex is released
ProlongationUnlock(t) ==
  /\ pc[t] = "unlock" /\ req[t].op = "P"
  /\ mutex' = 0
  /\ local' = NoLocal
  /\ pc' = [pc EXCEPT ![t] = "return"]
  /\ UNCHANGED <<prolongation, restriction, req, nEmbed, nProject, lastRet,
                 warm, allowed, observe, polyVars>>

\* return this->prolongation[refinement_case - 1][child]
ProlongationReturn(t) ==
  /\ pc[t] = "return" /\ req[t].op = "P"
  /\ lastRet' = IF observe
                  THEN [op |-> "P", rc |-> req[t].rc, child |-> req[t].child,
                        view |-> View(prolongation[req[t].rc][req[t].child])]
                  ELSE lastRet
  /\ pc' = [pc EXCEPT ![t] = "idle"]
  /\ req' = [req EXCEPT ![t] = NoReq]
  /\ warm' = [warm EXCEPT ![t] = Cold]
  /\ UNCHANGED <<prolongation, restriction, mutex, local, nEmbed, nProject,
                 allowed, observe, polyVars>>

\* ------------------------------------------------- get_restriction_matrix
CallRestriction(t) ==
  /\ pc[t] = "idle"
  /\ \E c \in allowed :
       /\ c.op = "R"
       /\ req' = [req EXCEPT ![t] = c]
       /\ pc' = [pc EXCEPT ![t] = IF ValidCall(c) THEN "check" ELSE "failed"]
       /\ warm' = [warm EXCEPT ![t] =
                     IF <<lastRet.op, lastRet.rc, lastRet.child>>
                          = <<c.op, c.rc, c.child>>
                       THEN lastRet.view ELSE Cold]
  /\ UNCHANGED <<prolongation, restriction, mutex, local, nEmbed, nProject,
                 lastRet, allowed, observe, polyVars>>

RestrictionCheck(t) ==
  /\ pc[t] = "check" /\ req[t].op = "R"
  /\ pc' = [pc EXCEPT ![t] =
              IF restriction[req[t].rc][req[t].child].n = 0
                THEN "lock" ELSE "return"]
  /\ UNCHANGED <<prolongation, restriction, mutex, req, local, nEmbed,
                 nProject, lastRet, warm, allowed, observe, polyVars>>

RestrictionLock(t) ==
  /\ pc[t] = "lock" /\ req[t].op = "R"
  /\ mutex = 0
  /\ mutex' = t
  /\ pc' = [pc EXCEPT ![t] = "recheck"]
  /\ UNCHANGED <<prolongation, restriction, req, local, nEmbed, nProject,
                 lastRet, warm, allowed, observe, polyVars>>

RestrictionRecheck(t) ==
  /\ pc[t] = "recheck" /\ req[t].op = "R"
  /\ pc' = [pc EXCEPT ![t] =
              IF restriction[req[t].rc][req[t].child].n = n_dofs_per_cell
                THEN "early"
                ELSE IF req[t].rc = isotropic_refinement
                       THEN "compute" ELSE "reinit"]
  /\ UNCHANGED <<prolongation, restriction, mutex, req, local, nEmbed,
                 nProject, lastRet, warm, allowed, observe, polyVars>>

RestrictionEarlyReturn(t) ==
  /\ pc[t] = "early" /\ req[t].op = "R"
  /\ mutex' = 0
  /\ pc' = [pc EXCEPT ![t] = "return"]
  /\ UNCHANGED <<prolongation, restriction, req, local, nEmbed, nProject,
                 lastRet, warm, allowed, observe, polyVars>>

RestrictionComputeIsotropic(t) ==
  /\ pc[t] = "compute" /\ req[t].op = "R"
  /\ nProject' = nProject + 1
  /\ local' = ComputeIsotropic("R", nProject + 1)
  /\ pc' = [pc EXCEPT ![t] = "swap"]
  /\ UNCHANGED <<prolongation, restriction, mutex, req, nEmbed, lastRet,
                 warm, allowed, observe, polyVars>>

RestrictionSwap(t) ==
  /\ pc[t] = "swap" /\ req[t].op = "R"
  /\ restriction' = [restriction EXCEPT ![req[t].rc] = local]
  /\ local' = restriction[req[t].rc]
  /\ pc' = [pc EXCEPT ![t] = "unlock"]
  /\ UNCHANGED <<prolongation, mutex, req, nEmbed, nProject, lastRet, warm,
                 allowed, observe, polyVars>>

RestrictionReinit(t) ==
  /\ pc[t] = "reinit" /\ req[t].op = "R"
  /\ prolongation' = ReinitTable(prolongation)
  /\ restriction' = ReinitTable(restriction)
  /\ pc' = [pc EXCEPT ![t] = "embed"]
  /\ UNCHANGED <<mutex, req, local, nEmbed, nProject, lastRet, warm, allowed, observe, polyVars>>

RestrictionEmbed(t) ==
  /\ pc[t] = "embed" /\ req[t].op = "R"
  /\ nEmbed' = nEmbed + 1
  /\ prolongation' = ComputeAll("P", nEmbed + 1)
  /\ pc' = [pc EXCEPT ![t] = "project"]
  /\ UNCHANGED <<restriction, mutex, req, local, nProject, lastRet, warm,
                 allowed, observe, polyVars>>

RestrictionProject(t) ==
  /\ pc[t] = "project" /\ req[t].op = "R"
  /\ nProject' = nProject + 1
  /\ restriction' = ComputeAll("R", nProject + 1)
  /\ pc' = [pc EXCEPT ![t] = "unlock"]
  /\ UNCHANGED <<prolongation, mutex, req, local, nEmbed, lastRet, warm,
                 allowed, observe, polyVars>>

RestrictionUnlock(t) ==
  /\ pc[t] = "unlock" /\ req[t].op = "R"
  /\ mutex' = 0
  /\ local' = NoLocal
  /\ pc' = [pc EXCEPT ![t] = "return"]
  /\ UNCHANGED <<prolongation, restriction, req, nEmbed, nProject, lastRet,
                 warm, allowed, observe, polyVars>>

RestrictionReturn(t) ==
  /\ pc[t] = "return" /\ req[t].op = "R"
  /\ lastRet' = IF observe
                  THEN [op |-> "R", rc |-> req[t].rc, child |-> req[t].child,
                        view |-> View(restriction[req[t].rc][req[t].child])]
                  ELSE lastRet
  /\ pc' = [pc EXCEPT ![t] = "idle"]
  /\ req' = [req EXCEPT ![t] = NoReq]
  /\ warm' = [warm EXCEPT ![t] = Cold]
  /\ UNCHANGED <<prolongation, restriction, mutex, local, nEmbed, nProject,
                 allowed, observe, polyVars>>

\* a failed assertion ends the call before anything else is done
AssertionFailure(t) ==
  /\ pc[t] = "failed"
  /\ pc' = [pc EXCEPT ![t] = "idle"]
  /\ req' = [req EXCEPT ![t] = NoReq]
  /\ warm' = [warm EXCEPT ![t] = Cold]
  /\ UNCHANGED <<prolongation, restriction, mutex, local, nEmbed, nProject,
                 lastRet, allowed, observe, polyVars>>

\* =================================================== polynomial space, FE
\* ------------------------------------------------------------------ bounds
\* largest constructor argument degree
MaxDegree == 1

Dims == {2, 3}
Degrees == 0 .. MaxDegree

\* a vector of `size` value-initialised elements, indexed from 0
Vector(size, x) == [i \in 0 .. (size - 1) |-> x]

\* `vec` after the assignments W[lo], ..., W[hi] in this order, each
\* W[m] = <<index, value>>; a vector without elements takes no store; the
\* range is halved to keep the nesting of the evaluation shallow
RECURSIVE StoreRange(_, _, _, _)
StoreRange(vec, W, lo, hi) ==
  IF lo > hi \/ DOMAIN vec = {}
    THEN vec
    ELSE IF lo = hi
      THEN [vec EXCEPT ![W[lo][1]] = W[lo][2]]
      ELSE LET mid == (lo + hi) \div 2
           IN  StoreRange(StoreRange(vec, W, lo, mid), W, mid + 1, hi)

\* `vec` after the assignments W[1], ..., W[Len(W)] in this order
StoreAll(vec, W) == StoreRange(vec, W, 1, Len(W))

\* the concatenation of the sequences S[1], ..., S[Len(S)]
RECURSIVE Flatten(_, _)
Flatten(S, m) == IF m > Len(S) THEN << >> ELSE S[m] \o Flatten(S, m + 1)

\* create_rt_polynomials: the number of 1-D Lagrange polynomials per axis
\* of the one stored space (degree + 2 on axis 0; degree + 1, or the single
\* midpoint polynomial when degree = 0, on the other axes)
create_rt_polynomials(dim, degree) ==
  [c \in 0 .. (dim - 1) |->
     IF c = 0 THEN degree + 2
     ELSE IF degree > 0 THEN degree + 1 ELSE 1]

\* polynomial_space.n(): the size of the tensor product
n_pols(dim, degree) ==
  LET pols == create_rt_polynomials(dim, degree)
  IN  IF dim = 2 THEN pols[0] * pols[1] ELSE pols[0] * pols[1] * pols[2]

\* internal::get_lexicographic_numbering_rt_nodal<dim>(degree), called with
\* the constructor's degree + 1: the hierarchic index (faces first, then
\* the interior, component by component) of every lexicographic index
get_lexicographic_numbering_rt_nodal(dim, degree) ==
  LET n_dofs_face == degree ^ (dim - 1)
      Range(lo, len) == [i \in 1 .. len |-> lo + i - 1]
      component1 ==
        Flatten([jj \in 1 .. n_dofs_face |->
                   LET j == jj - 1
                   IN  <<j>>
                       \o (IF degree > 1
                             THEN Range(n_dofs_face * 2 * dim
                                          + j * (degree - 1), degree - 1)
                             ELSE << >>)
                       \o <<n_dofs_face + j>>], 1)
      layers == IF dim = 3 THEN degree ELSE 1
      component2 ==
        Flatten([kk \in 1 .. layers |->
                   LET k_add == (kk - 1) * degree
                   IN  Range(n_dofs_face * 2 + k_add, degree)
                       \o (IF degree > 1
                             THEN Range(n_dofs_face * (2 * dim + (degree - 1))
                                          + k_add * (degree - 1),
                                        (degree - 1) * degree)
                             ELSE << >>)
                       \o Range(n_dofs_face * 3 + k_add, degree)], 1)
      component3 ==
        IF dim = 3
          THEN Range(4 * n_dofs_face, n_dofs_face)
               \o (IF degree > 1
                     THEN Range(6 * n_dofs_face
                                  + n_dofs_face * 2 * (degree - 1),
                                n_dofs_face * (degree - 1))
                     ELSE << >>)
               \o Range(5 * n_dofs_face, n_dofs_face)
          ELSE << >>
      numbering == component1 \o component2 \o component3
  IN  [i \in 0 .. (Len(numbering) - 1) |-> numbering[i + 1]]

\* the (i, j) loop nest of the constructor for dim = 2, in execution order:
\* renumber_aniso[1][j * (degree + 1) + i] = j + i * (degree + 2)
RenumberLoop2(degree) ==
  [m \in 1 .. ((degree + 2) * (degree + 1)) |->
     LET j == (m - 1) \div (degree + 1)
         i == (m - 1) % (degree + 1)
     IN  <<j * (degree + 1) + i, j + i * (degree + 2)>>]

\* the first loop nest for dim = 3 with the strides of i and k exchanged
RenumberLoop3aStridesSwapped(degree) ==
  [m \in 1 .. ((degree + 1) * (degree + 2) * (degree + 1)) |->
     LET k == (m - 1) \div ((degree + 2) * (degree + 1))
         j == ((m - 1) \div (degree + 1)) % (degree + 2)
         i == (m - 1) % (degree + 1)
     IN  <<(k * (degree + 2) + j) * (degree + 1) + i,
           j + i * (degree + 2) + k * (degree + 2) * (degree + 1)>>]

\* the first (k, j, i) loop nest for dim = 3: (i, j, k) -> (j, k, i)
RenumberLoop3a(degree) ==
  [m \in 1 .. ((degree + 1) * (degree + 2) * (degree + 1)) |->
     LET k == (m - 1) \div ((degree + 2) * (degree + 1))
         j == ((m - 1) \div (degree + 1)) % (degree + 2)
         i == (m - 1) % (degree + 1)
     IN  <<(k * (degree + 2) + j) * (degree + 1) + i,
           j + k * (degree + 2) + i * (degree + 2) * (degree + 1)>>]

\* the second (k, j, i) loop nest for dim = 3: (i, j, k) -> (k, i, j)
RenumberLoop3b(degree) ==
  [m \in 1 .. ((degree + 2) * (degree + 1) * (degree + 1)) |->
     LET k == (m - 1) \div ((degree + 1) * (degree + 1))
         j == ((m - 1) \div (degree + 1)) % (degree + 1)
         i == (m - 1) % (degree + 1)
     IN  <<(k * (degree + 1) + j) * (degree + 1) + i,
           k + i * (degree + 2) + j * (degree + 2) * (degree + 1)>>]

\* the renumber_aniso member as the constructor leaves it
RenumberAniso(dim, degree) ==
  LET n == n_pols(dim, degree)
  IN  [d \in 0 .. (dim - 1) |->
         IF d = 0 THEN [i \in 0 .. (n - 1) |-> i]
         ELSE IF dim = 2
           THEN StoreAll(Vector(n, 0), RenumberLoop2(degree))
         ELSE IF d = 1
           THEN StoreAll(Vector(n, 0), RenumberLoop3a(degree))
           ELSE StoreAll(Vector(n, 0), RenumberLoop3b(degree))]

\* the two members the constructor of the polynomial class sets up
PolynomialsRaviartThomasNodal(dim, degree) ==
  [lexicographic_to_hierarchic |->
     get_lexicographic_numbering_rt_nodal(dim, degree + 1),
   renumber_aniso |-> RenumberAniso(dim, degree)]

\* --------------------------------------------------------- support points
\* the points of the 1-D rules, by the rule's name, size and point index
QMidpoint == [q \in 0 .. 0 |-> <<"QMidpoint", 1, q>>]
QGaussLobatto(n) == [q \in 0 .. (n - 1) |-> <<"QGaussLobatto", n, q>>]

\* a value-initialised Point<dim>
Origin(dim) == [c \in 0 .. (dim - 1) |-> <<"zero", 0, 0>>]

\* QAnisotropic<dim>(high, low[, low]).point(q): the tensor product of the
\* 1-D rules, the first rule running fastest
QAnisotropicPoint(dim, high, low, q) ==
  LET nh == Cardinality(DOMAIN high)
      nl == Cardinality(DOMAIN low)
  IN  [c \in 0 .. (dim - 1) |->
         IF c = 0 THEN high[q % nh]
         ELSE IF c = 1 THEN low[(q \div nh) % nl]
         ELSE low[q \div (nh * nl)]]

\* the (d, i) loop nest of get_polynomial_support_points in execution order
SupportPointLoop(dim, degree, space) ==
  LET low   == IF degree = 0 THEN QMidpoint ELSE QGaussLobatto(degree + 1)
      high  == QGaussLobatto(degree + 2)
      n_sub == n_pols(dim, degree)
  IN  [m \in 1 .. (dim * n_sub) |->
         LET d == (m - 1) \div n_sub
             i == (m - 1) % n_sub
         IN  <<space.lexicographic_to_hierarchic[i + d * n_sub],
               QAnisotropicPoint(dim, high, low,
                                 space.renumber_aniso[d][i])>>]

\* PolynomialsRaviartThomasNodal<dim>::get_polynomial_support_points()
get_polynomial_support_points(dim, degree, space) ==
  StoreAll(Vector(n_polynomials(dim, degree), Origin(dim)),
           SupportPointLoop(dim, degree, space))

\* ------------------------------------------------ face orientation tables
\* unsigned int is 32 bits wide; a value is kept as two 16-bit halves
\* <<high, low>> so that the wrap-around of a subtraction is exact
Half == 65536

ToUnsigned(x) == <<x \div Half, x % Half>>

\* a - b in unsigned int arithmetic
UnsignedMinus(a, b) ==
  LET lo     == a[2] - b[2]
      borrow == IF lo < 0 THEN 1 ELSE 0
  IN  <<(a[1] - b[1] - borrow) % Half, lo % Half>>

\* the conversion of an unsigned int to the int the index table stores
ToInt(u) ==
  IF u[1] < Half \div 2
    THEN u[1] * Half + u[2]
    ELSE 0 - ((Half - 1 - u[1]) * Half + (Half - u[2]))

\* the dofs-per-object vector with the loop over d started at 0
get_rt_dpo_vectorLoopFromZero(dim, degree) ==
  LET dofs_per_face == (degree + 1) ^ dim
  IN  StoreAll(Vector(dim + 1, 0),
               <<<<0, 0>>, <<1, 0>>, <<dim - 1, dofs_per_face>>,
                 <<dim, dim * degree * dofs_per_face>>>>)

\* get_rt_dpo_vector(dim, degree): dofs per vertex, line, quad (and hex)
get_rt_dpo_vector(dim, degree) ==
  LET after[d \in 0 .. (dim - 1)] ==
        IF d = 0 THEN 1 ELSE after[d - 1] * (degree + 1)
      dofs_per_face == after[dim - 1]
  IN  StoreAll(Vector(dim + 1, 0),
               <<<<0, 0>>, <<1, 0>>, <<dim - 1, dofs_per_face>>,
                 <<dim, dim * degree * dofs_per_face>>>>)

\* FiniteElementData::n_dofs_per_quad(): entry 2 of the dpo vector
n_dofs_per_quad(dim, degree) == get_rt_dpo_vector(dim, degree)[2]

\* FiniteElementData::n_dofs_per_face(): the dofs of a face of the cell,
\* which has no vertex and, in 3-D, no line dofs
n_dofs_per_face(dim, degree) == get_rt_dpo_vector(dim, degree)[dim - 1]

\* FiniteElementData::n_dofs_per_cell(): 2 * dim faces and the interior
n_dofs_of_cell(dim, degree) ==
  2 * dim * n_dofs_per_face(dim, degree) + get_rt_dpo_vector(dim, degree)[dim]

\* the tables as the base class sizes and fills them: one row per quad dof
\* and 8 columns in 3-D, no row otherwise
QuadTable(dim, degree, x) ==
  IF dim = 3
    THEN Vector(n_dofs_per_quad(dim, degree), [c \in 0 .. 7 |-> x])
    ELSE Vector(0, [c \in 0 .. 7 |-> x])

\* the index entries with case 0 left untransposed (i + j * n)
QuadIndexRowUntransposed(n, dof) ==
  LET i == dof % n
      j == dof \div n
      Delta(permuted) ==
        ToInt(UnsignedMinus(ToUnsigned(permuted), ToUnsigned(dof)))
  IN  [c \in 0 .. 7 |->
         IF c = 0 THEN Delta(i + j * n)
         ELSE IF c = 1 THEN Delta(i + (n - 1 - j) * n)
         ELSE IF c = 2 THEN Delta((n - 1 - j) + (n - 1 - i) * n)
         ELSE IF c = 3 THEN Delta((n - 1 - i) + j * n)
         ELSE IF c = 4 THEN 0
         ELSE IF c = 5 THEN Delta(j + (n - 1 - i) * n)
         ELSE IF c = 6 THEN Delta((n - 1 - i) + (n - 1 - j) * n)
         ELSE Delta((n - 1 - j) + i * n)]

\* the index entries with i in place of j in the case (F, F, T)
QuadIndexRowFlipTypo(n, dof) ==
  LET i == dof % n
      j == dof \div n
      Delta(permuted) ==
        ToInt(UnsignedMinus(ToUnsigned(permuted), ToUnsigned(dof)))
  IN  [c \in 0 .. 7 |->
         IF c = 0 THEN Delta(j + i * n)
         ELSE IF c = 1 THEN Delta(i + (n - 1 - i) * n)
         ELSE IF c = 2 THEN Delta((n - 1 - j) + (n - 1 - i) * n)
         ELSE IF c = 3 THEN Delta((n - 1 - i) + j * n)
         ELSE IF c = 4 THEN 0
         ELSE IF c = 5 THEN Delta(j + (n - 1 - i) * n)
         ELSE IF c = 6 THEN Delta((n - 1 - i) + (n - 1 - j) * n)
         ELSE Delta((n - 1 - j) + i * n)]

\* the eight index entries the loop body writes for quad dof `dof` (the loop variable local)
QuadIndexRow(n, dof) ==
  LET i == dof % n
      j == dof \div n
      Delta(permuted) ==
        ToInt(UnsignedMinus(ToUnsigned(permuted), ToUnsigned(dof)))
  IN  [c \in 0 .. 7 |->
         IF c = 0 THEN Delta(j + i * n)
         ELSE IF c = 1 THEN Delta(i + (n - 1 - j) * n)
         ELSE IF c = 2 THEN Delta((n - 1 - j) + (n - 1 - i) * n)
         ELSE IF c = 3 THEN Delta((n - 1 - i) + j * n)
         ELSE IF c = 4 THEN 0
         ELSE IF c = 5 THEN Delta(j + (n - 1 - i) * n)
         ELSE IF c = 6 THEN Delta((n - 1 - i) + (n - 1 - j) * n)
         ELSE Delta((n - 1 - j) + i * n)]

\* the sign entries with the loop running over all 8 cases
QuadSignRowAllCases(row) == [c \in 0 .. 7 |-> 1]

\* the sign entries the loop body writes into a row:
\* for (i = 0; i < 4; ++i) table(local, i) = 1
QuadSignRow(row) == [c \in 0 .. 7 |-> IF c < 4 THEN 1 ELSE row[c]]

\* initialize_quad_dof_index_permutation_and_sign_change(), with
\* n = this->degree, one more than the constructor's degree
initialize_quad_dof_index_permutation_and_sign_change(dim, degree, index, sign) ==
  IF dim < 3
    THEN [index |-> index, sign |-> sign]
    ELSE LET n == degree + 1
         IN  [index |-> [dof \in DOMAIN index |-> QuadIndexRow(n, dof)],
              sign  |-> [dof \in DOMAIN sign |-> QuadSignRow(sign[dof])]]

\* FE_RaviartThomasNodal<dim>::FE_RaviartThomasNodal(degree)
ConstructElement ==
  /\ stage = "new"
  /\ stage' = "element"
  /\ LET space  == PolynomialsRaviartThomasNodal(fe_dim, fe_degree)
         tables == initialize_quad_dof_index_permutation_and_sign_change(
                     fe_dim, fe_degree, quad_index_table, quad_sign_table)
     IN  /\ lexicographic_to_hierarchic' = space.lexicographic_to_hierarchic
         /\ renumber_aniso' = space.renumber_aniso
         /\ generalized_support_points'
              = get_polynomial_support_points(fe_dim, fe_degree, space)
         /\ quad_index_table' = tables.index
         /\ quad_sign_table' = tables.sign
  /\ UNCHANGED <<fe_dim, fe_degree, sign_fill, eval_point, eval_sized,
                 eval_out,
                 fe_call, fe_ret, cacheVars>>

\* ------------------------------------------------- calls of const members
\* the element a const member is called with: one of this family, the
\* FE_Nothing placeholder (dominating or not) or an element of another
\* family
\* largest constructor argument degree of the other element of a call
MaxOtherDegree == 2

OtherDegrees == 0 .. MaxOtherDegree

\* the element of this family with constructor argument q
FamilyElement(q) ==
  [kind |-> "FE_RaviartThomasNodal", degree |-> q, dominating |-> FALSE]

FamilyElements == {FamilyElement(q) : q \in OtherDegrees}

NothingElements ==
  {[kind |-> "FE_Nothing", degree |-> 0, dominating |-> b] : b \in BOOLEAN}

ForeignElements == {[kind |-> "FE_Q", degree |-> 1, dominating |-> FALSE]}

OtherElements == FamilyElements \cup NothingElements \cup ForeignElements

NoElement == [kind |-> "-", degree |-> 0, dominating |-> FALSE]

\* no const member has been called
NoCall ==
  [fn |-> "-", other |-> NoElement, arg |-> 0, rows |-> 0, cols |-> 0]

NoResult == [status |-> "-", value |-> << >>]

\* a normal return with a value
Returned(value) == [status |-> "ok", value |-> value]

\* a failed Assert / AssertThrow with the exception it names
Failed(exception, value) == [status |-> exception, value |-> value]

\* one const member is called per run
ConstCall(call, result) ==
  /\ stage = "element"
  /\ fe_call = NoCall
  /\ eval_point = << >>
  /\ fe_call' = call
  /\ fe_ret' = result
  /\ UNCHANGED <<fe_dim, fe_degree, stage, lexicographic_to_hierarchic,
                 renumber_aniso, generalized_support_points,
                 quad_index_table, quad_sign_table, sign_fill, eval_point,
                 eval_sized, eval_out, cacheVars>>

\* ---------------------------------------------------------- hp identities
\* the vertex identities without the test of the other element's family
hp_vertex_dof_identitiesUntested(fe_other) == Returned(<< >>)

\* hp_vertex_dof_identities(fe_other)
hp_vertex_dof_identities(fe_other) ==
  IF fe_other.kind = "FE_RaviartThomasNodal" THEN Returned(<< >>)
  ELSE IF fe_other.kind = "FE_Nothing" THEN Returned(<< >>)
  ELSE Failed("ExcNotImplemented", << >>)

\* for (i = 0; i < count; ++i) identities.emplace_back(i, i)
FullIdentities(count) == [i \in 1 .. count |-> <<i - 1, i - 1>>]

\* the line identities with the parity test of the quad case (p, q odd)
hp_line_dof_identitiesOddTest(dim, degree, fe_other) ==
  IF fe_other.kind = "FE_RaviartThomasNodal"
    THEN IF dim # 2
           THEN Returned(<< >>)
           ELSE LET p == (degree + 1) - 1
                    q == (fe_other.degree + 1) - 1
                IN  IF p = q THEN Returned(FullIdentities(p + 1))
                    ELSE IF p % 2 # 0 /\ q % 2 # 0
                      THEN Returned(<<<<p \div 2, q \div 2>>>>)
                    ELSE Returned(<< >>)
  ELSE IF fe_other.kind = "FE_Nothing" THEN Returned(<< >>)
  ELSE Failed("ExcNotImplemented", << >>)

\* hp_line_dof_identities(fe_other); this->degree is the constructor's
\* degree + 1
hp_line_dof_identities(dim, degree, fe_other) ==
  IF fe_other.kind = "FE_RaviartThomasNodal"
    THEN IF dim # 2
           THEN Returned(<< >>)
           ELSE LET p == (degree + 1) - 1
                    q == (fe_other.degree + 1) - 1
                IN  IF p = q THEN Returned(FullIdentities(p + 1))
                    ELSE IF p % 2 = 0 /\ q % 2 = 0
                      THEN Returned(<<<<p \div 2, q \div 2>>>>)
                    ELSE Returned(<< >>)
  ELSE IF fe_other.kind = "FE_Nothing" THEN Returned(<< >>)
  ELSE Failed("ExcNotImplemented", << >>)

\* hp_quad_dof_identities(fe_other, face_no)
hp_quad_dof_identities(dim, degree, fe_other, face_no) ==
  IF fe_other.kind = "FE_RaviartThomasNodal"
    THEN IF dim # 3
           THEN Returned(<< >>)
           ELSE LET p == n_dofs_per_quad(dim, degree)
                    q == n_dofs_per_quad(dim, fe_other.degree)
                IN  IF p = q THEN Returned(FullIdentities(p))
                    ELSE IF p % 2 # 0 /\ q % 2 # 0
                      THEN Returned(<<<<p \div 2, q \div 2>>>>)
                    ELSE Returned(<< >>)
  ELSE IF fe_other.kind = "FE_Nothing" THEN Returned(<< >>)
  ELSE Failed("ExcNotImplemented", << >>)

\* the comparison with the two strict outcomes exchanged
compare_for_dominationReversed(dim, degree, fe_other, codim) ==
  IF codim > dim
    THEN Failed("ExcImpossibleInDim", "none")
    ELSE IF fe_other.kind = "FE_RaviartThomasNodal"
      THEN IF degree + 1 < fe_other.degree + 1
             THEN Returned("other_element_dominates")
             ELSE IF degree + 1 = fe_other.degree + 1
               THEN Returned("either_element_can_dominate")
               ELSE Returned("this_element_dominates")
    ELSE IF fe_other.kind = "FE_Nothing"
      THEN IF fe_other.dominating
             THEN Returned("other_element_dominates")
             ELSE Returned("no_requirements")
    ELSE Failed("ExcNotImplemented", "neither_element_dominates")

\* compare_for_domination(fe_other, codim)
compare_for_domination(dim, degree, fe_other, codim) ==
  IF codim > dim
    THEN Failed("ExcImpossibleInDim", "none")
    ELSE IF fe_other.kind = "FE_RaviartThomasNodal"
      THEN IF degree + 1 < fe_other.degree + 1
             THEN Returned("this_element_dominates")
             ELSE IF degree + 1 = fe_other.degree + 1
               THEN Returned("either_element_can_dominate")
               ELSE Returned("other_element_dominates")
    ELSE IF fe_other.kind = "FE_Nothing"
      THEN IF fe_other.dominating
             THEN Returned("other_element_dominates")
             ELSE Returned("no_requirements")
    ELSE Failed("ExcNotImplemented", "neither_element_dominates")

HpVertexDofIdentities ==
  \E fe_other \in OtherElements :
    ConstCall([fn |-> "hp_vertex_dof_identities", other |-> fe_other,
               arg |-> 0, rows |-> 0, cols |-> 0],
              hp_vertex_dof_identities(fe_other))

HpLineDofIdentities ==
  \E fe_other \in OtherElements :
    ConstCall([fn |-> "hp_line_dof_identities", other |-> fe_other,
               arg |-> 0, rows |-> 0, cols |-> 0],
              hp_line_dof_identities(fe_dim, fe_degree, fe_other))

\* face_no is 0: the element has one kind of face
HpQuadDofIdentities ==
  \E fe_other \in OtherElements :
    ConstCall([fn |-> "hp_quad_dof_identities", other |-> fe_other,
               arg |-> 0, rows |-> 0, cols |-> 0],
              hp_quad_dof_identities(fe_dim, fe_degree, fe_other, 0))

CompareForDomination ==
  \E fe_other \in OtherElements, codim \in 0 .. (fe_dim + 1) :
    ConstCall([fn |-> "compare_for_domination", other |-> fe_other,
               arg |-> codim, rows |-> 0, cols |-> 0],
              compare_for_domination(fe_dim, fe_degree, fe_other, codim))

\* ------------------------------------------- face interpolation matrices
\* what an entry of the caller's matrix holds before the call
OldValue == <<"old">>

\* the caller's FullMatrix<double> with m rows and n columns; an entry
\* keeps its value and the number of stores it has received
FullMatrix(m, n) ==
  [m |-> m, n |-> n,
   entry |-> [ij \in (0 .. (m - 1)) \X (0 .. (n - 1)) |->
                [value |-> OldValue, writes |-> 0]]]

\* the sizes a caller may have given the matrix
FaceSizes(dim) == {n_dofs_per_face(dim, q) : q \in OtherDegrees}

\* the number of children of a face
max_children_per_face(dim) == 2 ^ (dim - 1)

\* FiniteElement::face_to_cell_index(face_dof, face) of an element whose
\* only dofs outside the interior lie on the faces
face_to_cell_index(dim, degree, face_dof, face) ==
  face * n_dofs_per_face(dim, degree) + face_dof

\* FE_PolyTensor::shape_value_component(i, p, component)
shape_value_component(i, p, component) ==
  <<"shape_value_component", i, p, component>>

\* QProjector::project_to_face(cell, quad_face_support, face).point(i), the
\* rule being the generalized face support points of source_fe
project_to_face(source_fe, face, i) ==
  <<"project_to_face", source_fe.degree, face, i>>

\* QProjector::project_to_subface(cell, quad_face_support, face,
\* subface).point(i)
project_to_subface(source_fe, face, subface, i) ==
  <<"project_to_subface", source_fe.degree, face, subface, i>>

\* the stores of the (i, j) loop nest in execution order, for the face
\* (subface < 0) or for a subface
InterpolationStores(dim, degree, source_fe, subface) ==
  LET n_source == n_dofs_per_face(dim, source_fe.degree)
      n_this   == n_dofs_per_face(dim, degree)
  IN  [s \in 1 .. (n_source * n_this) |->
         LET i == (s - 1) \div n_this
             j == (s - 1) % n_this
             p == IF subface < 0
                    THEN project_to_face(source_fe, 0, i)
                    ELSE project_to_subface(source_fe, 0, subface, i)
         IN  <<<<i, j>>,
               shape_value_component(
                 face_to_cell_index(dim, degree, j, 0), p, 0)>>]

\* stores lo .. hi of the loop nest: interpolation_matrix(i, j) =
\* matrix_entry; the range is halved to keep the nesting shallow
RECURSIVE StoreEntries(_, _, _, _)
StoreEntries(entry, stores, lo, hi) ==
  IF lo > hi \/ DOMAIN entry = {}
    THEN entry
    ELSE IF lo = hi
      THEN [entry EXCEPT ![stores[lo][1]] =
              [value |-> stores[lo][2], writes |-> @.writes + 1]]
      ELSE LET mid == (lo + hi) \div 2
           IN  StoreEntries(StoreEntries(entry, stores, lo, mid),
                            stores, mid + 1, hi)

\* the loop nest over the source's and this element's face dofs
InterpolationLoop(dim, degree, source_fe, subface, matrix) ==
  LET stores == InterpolationStores(dim, degree, source_fe, subface)
  IN  [matrix EXCEPT !.entry = StoreEntries(@, stores, 1, Len(stores))]

\* the face matrix without the comparison of the two per-face dof counts
get_face_interpolation_matrixUncompared(dim, degree, x_source_fe, matrix) ==
  IF x_source_fe.kind # "FE_RaviartThomasNodal"
    THEN Failed("ExcInterpolationNotImplemented", matrix)
  ELSE IF matrix.n # n_dofs_per_face(dim, degree)
    THEN Failed("ExcDimensionMismatch", matrix)
  ELSE IF matrix.m # n_dofs_per_face(dim, x_source_fe.degree)
    THEN Failed("ExcDimensionMismatch", matrix)
  ELSE Returned(InterpolationLoop(dim, degree, x_source_fe, 0 - 1, matrix))

\* get_face_interpolation_matrix(x_source_fe, interpolation_matrix,
\* face_no) for dim > 1; the row sums the debug build asserts at the end
\* are floating-point values and are not part of the result kept here
get_face_interpolation_matrix(dim, degree, x_source_fe, matrix) ==
  IF x_source_fe.kind # "FE_RaviartThomasNodal"
    THEN Failed("ExcInterpolationNotImplemented", matrix)
  ELSE IF matrix.n # n_dofs_per_face(dim, degree)
    THEN Failed("ExcDimensionMismatch", matrix)
  ELSE IF matrix.m # n_dofs_per_face(dim, x_source_fe.degree)
    THEN Failed("ExcDimensionMismatch", matrix)
  ELSE IF ~(n_dofs_per_face(dim, degree)
              <= n_dofs_per_face(dim, x_source_fe.degree))
    THEN Failed("ExcInterpolationNotImplemented", matrix)
  ELSE Returned(InterpolationLoop(dim, degree, x_source_fe, 0 - 1, matrix))

\* get_subface_interpolation_matrix(x_source_fe, subface,
\* interpolation_matrix, face_no) for dim > 1
get_subface_interpolation_matrix(dim, degree, x_source_fe, subface, matrix) ==
  IF x_source_fe.kind # "FE_RaviartThomasNodal"
    THEN Failed("ExcInterpolationNotImplemented", matrix)
  ELSE IF matrix.n # n_dofs_per_face(dim, degree)
    THEN Failed("ExcDimensionMismatch", matrix)
  ELSE IF matrix.m # n_dofs_per_face(dim, x_source_fe.degree)
    THEN Failed("ExcDimensionMismatch", matrix)
  ELSE IF ~(n_dofs_per_face(dim, degree)
              <= n_dofs_per_face(dim, x_source_fe.degree))
    THEN Failed("ExcInterpolationNotImplemented", matrix)
  ELSE Returned(InterpolationLoop(dim, degree, x_source_fe, subface, matrix))

\* FE_RaviartThomasNodal<1>::get_face_interpolation_matrix and
\* FE_RaviartThomasNodal<1>::get_subface_interpolation_matrix: the bodies
\* read neither the element nor an argument
get_face_interpolation_matrix_1(matrix) ==
  Failed("ExcImpossibleInDim", matrix)

get_subface_interpolation_matrix_1(matrix) ==
  Failed("ExcImpossibleInDim", matrix)

GetFaceInterpolationMatrix ==
  \E x_source_fe \in OtherElements, m \in FaceSizes(fe_dim),
     n \in FaceSizes(fe_dim) :
    ConstCall([fn |-> "get_face_interpolation_matrix",
               other |-> x_source_fe, arg |-> 0, rows |-> m, cols |-> n],
              get_face_interpolation_matrix(fe_dim, fe_degree, x_source_fe,
                                            FullMatrix(m, n)))

GetSubfaceInterpolationMatrix ==
  \E x_source_fe \in OtherElements, m \in FaceSizes(fe_dim),
     n \in FaceSizes(fe_dim),
     subface \in 0 .. (max_children_per_face(fe_dim) - 1) :
    ConstCall([fn |-> "get_subface_interpolation_matrix",
               other |-> x_source_fe, arg |-> subface, rows |-> m,
               cols |-> n],
              get_subface_interpolation_matrix(fe_dim, fe_degree,
                                               x_source_fe, subface,
                                               FullMatrix(m, n)))

\* the specialisations for dim = 1, called with any source element and any
\* matrix
GetFaceInterpolationMatrixDim1 ==
  \E x_source_fe \in OtherElements, m \in FaceSizes(2), n \in FaceSizes(2) :
    ConstCall([fn |-> "get_face_interpolation_matrix<1>",
               other |-> x_source_fe, arg |-> 0, rows |-> m, cols |-> n],
              get_face_interpolation_matrix_1(FullMatrix(m, n)))

GetSubfaceInterpolationMatrixDim1 ==
  \E x_source_fe \in OtherElements, m \in FaceSizes(2), n \in FaceSizes(2) :
    ConstCall([fn |-> "get_subface_interpolation_matrix<1>",
               other |-> x_source_fe, arg |-> 0, rows |-> m, cols |-> n],
              get_subface_interpolation_matrix_1(FullMatrix(m, n)))

\* ------------------------- generalized support point values to dof values
\* GeometryInfo<dim>::faces_per_cell
faces_per_cell(dim) == 2 * dim

\* GeometryInfo<dim>::unit_normal_direction[f]
unit_normal_direction(f) == f \div 2

\* support_point_values[k](component)
SupportPointValue(k, component) == <<"support_point_value", k, component>>

\* the caller's nodal_values with `size` entries; an entry keeps its value
\* and the number of stores it has received
NodalValues(size) ==
  [k \in 0 .. (size - 1) |-> [value |-> OldValue, writes |-> 0]]

\* the locals of the conversion and the caller's vector: fbase, f, istep,
\* fbase as the face loop left it, and the iterations of the while loop
ConversionState(nodal_values, fbase, f, istep, face_end, entered) ==
  [nodal_values |-> nodal_values, fbase |-> fbase, f |-> f, istep |-> istep,
   face_end |-> face_end, entered |-> entered]

Converting == fe_call.fn = "convert_generalized_support_point_values_to_dof_values"

\* a step of the conversion leaves the element and the other calls alone
ConversionFrame ==
  UNCHANGED <<fe_dim, fe_degree, stage, lexicographic_to_hierarchic,
              renumber_aniso, generalized_support_points, quad_index_table,
              quad_sign_table, sign_fill, eval_point, eval_sized, eval_out,
              cacheVars>>

\* for (i = 0; i < count; ++i)
\*   nodal_values[fbase + i] = support_point_values[fbase + i](component);
\* the iterations store into different entries, so the vector after the
\* loop is given entry by entry
ConversionLoop(nodal_values, fbase, count, component) ==
  [k \in DOMAIN nodal_values |->
     IF fbase <= k /\ k < fbase + count
       THEN [value |-> SupportPointValue(k, component),
             writes |-> nodal_values[k].writes + 1]
       ELSE nodal_values[k]]

\* the entry of the function: the three assertions and the initialisation
\* of fbase and f
ConvertCall ==
  /\ stage = "element"
  /\ fe_call = NoCall
  /\ eval_point = << >>
  /\ \E values_size \in {n_dofs_of_cell(fe_dim, fe_degree),
                         n_dofs_of_cell(fe_dim, fe_degree) + 1},
        nodal_size \in {n_dofs_of_cell(fe_dim, fe_degree),
                        n_dofs_of_cell(fe_dim, fe_degree) + 1},
        components \in {fe_dim, 1} :
       /\ fe_call' = [fn |-> "convert_generalized_support_point_values_to_dof_values",
                      other |-> NoElement, arg |-> components,
                      rows |-> values_size, cols |-> nodal_size]
       /\ fe_ret' =
            IF values_size # Cardinality(DOMAIN generalized_support_points)
              THEN Failed("ExcDimensionMismatch",
                          ConversionState(NodalValues(nodal_size), 0, 0, 0,
                                          0, 0))
            ELSE IF nodal_size # n_dofs_of_cell(fe_dim, fe_degree)
              THEN Failed("ExcDimensionMismatch",
                          ConversionState(NodalValues(nodal_size), 0, 0, 0,
                                          0, 0))
            ELSE IF components # fe_dim
              THEN Failed("ExcDimensionMismatch",
                          ConversionState(NodalValues(nodal_size), 0, 0, 0,
                                          0, 0))
            ELSE [status |-> "face_loop",
                  value |-> ConversionState(NodalValues(nodal_size), 0, 0,
                                            0, 0, 0)]
  /\ ConversionFrame

\* one iteration of the loop over the faces: the loop over i, then ++f and
\* fbase += n_dofs_per_face(f), which is the same for every face
ConvertFaceIteration ==
  /\ Converting
  /\ fe_ret.status = "face_loop"
  /\ fe_ret.value.f < faces_per_cell(fe_dim)
  /\ LET s == fe_ret.value
     IN  fe_ret' = [fe_ret EXCEPT
                      !.value.nodal_values
                         = ConversionLoop(s.nodal_values, s.fbase,
                                          n_dofs_per_face(fe_dim, fe_degree),
                                          unit_normal_direction(s.f)),
                      !.value.f = @ + 1,
                      !.value.fbase
                         = @ + n_dofs_per_face(fe_dim, fe_degree)]
  /\ UNCHANGED fe_call
  /\ ConversionFrame

\* the end of the loop over the faces: istep, its assertion, f = 0
ConvertFaceExit ==
  /\ Converting
  /\ fe_ret.status = "face_loop"
  /\ ~(fe_ret.value.f < faces_per_cell(fe_dim))
  /\ LET s    == fe_ret.value
         rest == n_dofs_of_cell(fe_dim, fe_degree) - s.fbase
     IN  fe_ret' =
           IF rest % fe_dim # 0
             THEN Failed("ExcInternalError", s)
             ELSE [status |-> "interior_loop",
                   value |-> [s EXCEPT !.istep = rest \div fe_dim,
                                       !.face_end = s.fbase,
                                       !.f = 0]]
  /\ UNCHANGED fe_call
  /\ ConversionFrame

\* an iteration of the while loop that does not advance fbase
ConvertInteriorIterationStays ==
  /\ Converting
  /\ fe_ret.status = "interior_loop"
  /\ fe_ret.value.fbase < n_dofs_of_cell(fe_dim, fe_degree)
  /\ fe_ret.value.entered < n_dofs_of_cell(fe_dim, fe_degree)
  /\ LET s == fe_ret.value
     IN  fe_ret' = [fe_ret EXCEPT
                      !.value.nodal_values
                         = ConversionLoop(s.nodal_values, s.fbase, s.istep,
                                          s.f),
                      !.value.f = @ + 1,
                      !.value.entered = @ + 1]
  /\ UNCHANGED fe_call
  /\ ConversionFrame

\* one iteration of the while loop: the loop over i, fbase += istep, ++f
ConvertInteriorIteration ==
  /\ Converting
  /\ fe_ret.status = "interior_loop"
  /\ fe_ret.value.fbase < n_dofs_of_cell(fe_dim, fe_degree)
  /\ LET s == fe_ret.value
     IN  fe_ret' = [fe_ret EXCEPT
                      !.value.nodal_values
                         = ConversionLoop(s.nodal_values, s.fbase, s.istep,
                                          s.f),
                      !.value.fbase = @ + s.istep,
                      !.value.f = @ + 1,
                      !.value.entered = @ + 1]
  /\ UNCHANGED fe_call
  /\ ConversionFrame

\* the end of the while loop and the final assertion
ConvertReturn ==
  /\ Converting
  /\ fe_ret.status = "interior_loop"
  /\ ~(fe_ret.value.fbase < n_dofs_of_cell(fe_dim, fe_degree))
  /\ fe_ret' =
       IF fe_ret.value.fbase # n_dofs_of_cell(fe_dim, fe_degree)
         THEN Failed("ExcInternalError", fe_ret.value)
         ELSE Returned(fe_ret.value)
  /\ UNCHANGED fe_call
  /\ ConversionFrame

\* a step of the conversion after its entry
ConvertStep ==
  \/ ConvertFaceIteration
  \/ ConvertFaceExit
  \/ ConvertInteriorIteration
  \/ ConvertReturn

\* ------------------------------------------------------------- evaluation
\* highest derivative order evaluate() fills (values are order 0)
max_order == 4

\* the unit points the caller evaluates at, as tuples of coordinates
UnitPoints(dim) ==
  {[c \in 1 .. dim |-> c], [c \in 1 .. dim |-> 0]}

\* the index tuples (d1, ..., dk) of a Tensor<k, dim>
Directions(dim, k) == [1 .. k -> 0 .. (dim - 1)]

\* the m-th index tuple the k nested loops over d1, ..., dk visit, d1 being
\* the outermost loop
LoopDirections(dim, k, m) ==
  [j \in 1 .. k |-> (m \div (dim ^ (k - j))) % dim]

\* what a caller's buffer entry holds before the call
OldEntry == <<"old", 0, << >>, << >>>>

\* a caller's buffer for derivative order k: this->n() entries or none
Buffer(dim, degree, k, sized) ==
  IF sized
    THEN Vector(n_polynomials(dim, degree),
                [comp \in 0 .. (dim - 1) |->
                   [dirs \in Directions(dim, k) |-> OldEntry]])
    ELSE << >>

\* entry `dirs` of p_values / p_grads / ... [i] as polynomial_space.evaluate
\* fills it: the derivative of stored polynomial i at p along dirs
StoredEntry(i, p, dirs) == <<"stored", i, p, dirs>>

\* Point<dim> p; p(c) = unit_point((c + d) % dim)
RotatedPoint(dim, unit_point, d) ==
  [c \in 1 .. dim |-> unit_point[((c - 1 + d) % dim) + 1]]

\* the target indices without the shift by d
UnrotateDirectionsMissing(dim, d, dirs) == dirs

\* the target indices [(d1 + d) % dim] ... [(dk + d) % dim] of a store
UnrotateDirections(dim, d, dirs) ==
  [j \in DOMAIN dirs |-> (dirs[j] + d) % dim]

\* the stores of the nested d1 .. dk loops into one tensor, in loop order
TensorLoop(dim, k, d, stored, p) ==
  [m \in 1 .. (dim ^ k) |->
     LET dirs == LoopDirections(dim, k, m - 1)
     IN  <<UnrotateDirections(dim, d, dirs), StoredEntry(stored, p, dirs)>>]

\* iterations lo .. hi of the loop over i for component d and the buffer
\* of order k; the loop runs to the size of the scratch vector, which is
\* n_sub for a sized buffer and 0 otherwise; the range is halved to keep
\* the nesting of the evaluation shallow
RECURSIVE ComponentRange(_, _, _, _, _, _, _, _, _, _)
ComponentRange(buf, dim, k, d, p, l2h, renumber, n_sub, lo, hi) ==
  IF buf = << >> \/ lo > hi
    THEN buf
    ELSE IF lo = hi
      THEN [buf EXCEPT ![l2h[lo + d * n_sub]][d] =
              StoreAll(@, TensorLoop(dim, k, d, renumber[d][lo], p))]
      ELSE LET mid == (lo + hi) \div 2
           IN  ComponentRange(
                 ComponentRange(buf, dim, k, d, p, l2h, renumber, n_sub,
                                lo, mid),
                 dim, k, d, p, l2h, renumber, n_sub, mid + 1, hi)

\* the loop over i for component d and the buffer of order k
ComponentLoop(buf, dim, k, d, p, l2h, renumber, n_sub) ==
  ComponentRange(buf, dim, k, d, p, l2h, renumber, n_sub, 0, n_sub - 1)

\* the loop over d for the buffer of order k
DirectionLoop(buf, dim, k, unit_point, l2h, renumber, n_sub) ==
  LET after[d \in 0 .. dim] ==
        IF d = 0
          THEN buf
          ELSE ComponentLoop(after[d - 1], dim, k, d - 1,
                             RotatedPoint(dim, unit_point, d - 1),
                             l2h, renumber, n_sub)
  IN  after[dim]

\* evaluate with the vectors of size 0 resized to this->n() and filled
evaluateResizesAll(dim, degree, l2h, renumber, unit_point, buffers) ==
  [k \in 0 .. max_order |->
     DirectionLoop(IF buffers[k] = << >>
                     THEN Buffer(dim, degree, k, TRUE)
                     ELSE buffers[k],
                   dim, k, unit_point, l2h, renumber, n_pols(dim, degree))]

\* PolynomialsRaviartThomasNodal<dim>::evaluate(unit_point, values, grads,
\* grad_grads, third_derivatives, fourth_derivatives)
evaluate(dim, degree, l2h, renumber, unit_point, buffers) ==
  [k \in 0 .. max_order |->
     DirectionLoop(buffers[k], dim, k, unit_point, l2h, renumber,
                   n_pols(dim, degree))]

\* one call of a const member per run: a call reads nothing an earlier
\* call wrote
Evaluate ==
  /\ stage = "element"
  /\ eval_point = << >>
  /\ fe_call = NoCall
  /\ \E unit_point \in UnitPoints(fe_dim), sized \in SUBSET (0 .. max_order) :
       /\ eval_point' = unit_point
       /\ eval_sized' = sized
       /\ eval_out'
            = evaluate(fe_dim, fe_degree, lexicographic_to_hierarchic,
                       renumber_aniso, unit_point,
                       [k \in 0 .. max_order |->
                          Buffer(fe_dim, fe_degree, k, k \in sized)])
  /\ UNCHANGED <<fe_dim, fe_degree, stage, lexicographic_to_hierarchic,
                 renumber_aniso, generalized_support_points,
                 quad_index_table, quad_sign_table, sign_fill, fe_call,
                 fe_ret, cacheVars>>

\* ------------------------------------------------ polynomial part: system
\* the element before its constructor body runs: the base class has sized
\* and filled the face orientation tables
InitElement(dim, degree, fill) ==
  /\ fe_dim = dim
  /\ fe_degree = degree
  /\ sign_fill = fill
  /\ stage = "new"
  /\ lexicographic_to_hierarchic = << >>
  /\ renumber_aniso = << >>
  /\ generalized_support_points = << >>
  /\ quad_index_table = QuadTable(dim, degree, 0)
  /\ quad_sign_table = QuadTable(dim, degree, fill)
  /\ eval_point = << >>
  /\ eval_sized = {}
  /\ eval_out = << >>
  /\ fe_call = NoCall
  /\ fe_ret = NoResult

\* the constructed element whose matrix cache Spec and SpecSameKey exercise
ConstructedElement(dim, degree, fill) ==
  LET space  == PolynomialsRaviartThomasNodal(dim, degree)
      tables == initialize_quad_dof_index_permutation_and_sign_change(
                  dim, degree, QuadTable(dim, degree, 0),
                  QuadTable(dim, degree, fill))
  IN  /\ fe_dim = dim
      /\ fe_degree = degree
      /\ sign_fill = fill
      /\ stage = "element"
      /\ lexicographic_to_hierarchic = space.lexicographic_to_hierarchic
      /\ renumber_aniso = space.renumber_aniso
      /\ generalized_support_points
           = get_polynomial_support_points(dim, degree, space)
      /\ quad_index_table = tables.index
      /\ quad_sign_table = tables.sign
      /\ eval_point = << >>
      /\ eval_sized = {}
      /\ eval_out = << >>
      /\ fe_call = NoCall
      /\ fe_ret = NoResult

\* every thread may make every call; no history is recorded
Init ==
  /\ InitCache
  /\ allowed = AllCalls
  /\ observe = FALSE
  /\ ConstructedElement(2, 0, 0)

\* all threads make the same call: one accessor with one key; returns are
\* recorded
InitSameKey ==
  /\ InitCache
  /\ \E c \in AllCalls : allowed = {c}
  /\ observe = TRUE
  /\ ConstructedElement(2, 0, 0)

Next ==
  \E t \in Threads :
    \/ CallProlongation(t)
    \/ ProlongationCheck(t)
    \/ ProlongationLock(t)
    \/ ProlongationRecheck(t)
    \/ ProlongationEarlyReturn(t)
    \/ ProlongationComputeIsotropic(t)
    \/ ProlongationSwap(t)
    \/ ProlongationReinit(t)
    \/ ProlongationEmbed(t)
    \/ ProlongationProject(t)
    \/ ProlongationUnlock(t)
    \/ ProlongationReturn(t)
    \/ CallRestriction(t)
    \/ RestrictionCheck(t)
    \/ RestrictionLock(t)
    \/ RestrictionRecheck(t)
    \/ RestrictionEarlyReturn(t)
    \/ RestrictionComputeIsotropic(t)
    \/ RestrictionSwap(t)
    \/ RestrictionReinit(t)
    \/ RestrictionEmbed(t)
    \/ RestrictionProject(t)
    \/ RestrictionUnlock(t)
    \/ RestrictionReturn(t)
    \/ AssertionFailure(t)

Spec == Init /\ [][Next]_vars

SpecSameKey == InitSameKey /\ [][Next]_vars

\* every thread that is inside a call keeps running: the accessors have no
\* suspension point but the wait for the mutex, and the scheduler does not
\* starve a thread that could run; whether a thread makes a call is up to
\* the caller
\* a step of thread t inside a call it has made
ThreadStep(t) ==
  \/ ProlongationCheck(t)
  \/ ProlongationLock(t)
  \/ ProlongationRecheck(t)
  \/ ProlongationEarlyReturn(t)
  \/ ProlongationComputeIsotropic(t)
  \/ ProlongationSwap(t)
  \/ ProlongationReinit(t)
  \/ ProlongationEmbed(t)
  \/ ProlongationProject(t)
  \/ ProlongationUnlock(t)
  \/ ProlongationReturn(t)
  \/ RestrictionCheck(t)
  \/ RestrictionLock(t)
  \/ RestrictionRecheck(t)
  \/ RestrictionEarlyReturn(t)
  \/ RestrictionComputeIsotropic(t)
  \/ RestrictionSwap(t)
  \/ RestrictionReinit(t)
  \/ RestrictionEmbed(t)
  \/ RestrictionProject(t)
  \/ RestrictionUnlock(t)
  \/ RestrictionReturn(t)
  \/ AssertionFailure(t)

SpecFair == Init /\ [][Next]_vars /\ \A t \in Threads : WF_vars(ThreadStep(t))

\* the polynomial space and the element's construction, for every dim and
\* degree; no accessor of the matrix cache is called
InitPoly ==
  /\ InitCache
  /\ allowed = {}
  /\ observe = FALSE
  /\ \E dim \in Dims, degree \in Degrees, fill \in {0, 1} :
       InitElement(dim, degree, fill)

NextPoly ==
  \/ ConstructElement
  \/ Evaluate
  \/ HpVertexDofIdentities
  \/ HpLineDofIdentities
  \/ HpQuadDofIdentities
  \/ CompareForDomination
  \/ GetFaceInterpolationMatrix
  \/ GetSubfaceInterpolationMatrix
  \/ GetFaceInterpolationMatrixDim1
  \/ GetSubfaceInterpolationMatrixDim1

SpecPoly == InitPoly /\ [][NextPoly]_vars

\* the element's construction and the conversion of support point values
\* to dof values, one step of a loop at a time
NextConvert ==
  \/ ConstructElement
  \/ ConvertCall
  \/ ConvertFaceIteration
  \/ ConvertFaceExit
  \/ ConvertInteriorIteration
  \/ ConvertReturn

\* a conversion that has been entered keeps running: it is a synchronous
\* computation without a suspension point
SpecConvert == InitPoly /\ [][NextConvert]_vars /\ WF_vars(ConvertStep)

\* ======================================================= cache: properties
\* the matrix a key names, in the given pair of tables
Slot(P, R, k) == IF k.op = "P" THEN P[k.rc][k.child] ELSE R[k.rc][k.child]

\* the thread is between taking and releasing the mutex
InSection(t) ==
  pc[t] \in {"recheck", "early", "compute", "swap", "reinit", "embed",
             "project", "unlock"}

\* thread t takes a step out of control point `at`
Leaves(t, at) == pc[t] = at /\ pc'[t] # at

\* every matrix of every refinement case of both tables holds its solution
AllSolved(P, R) ==
  \A rc \in RefCases : \A c \in Children(rc) :
    /\ View(P[rc][c]) = [n |-> n_dofs_per_cell, val |-> <<"P", rc, c>>]
    /\ View(R[rc][c]) = [n |-> n_dofs_per_cell, val |-> <<"R", rc, c>>]

\* the solver runs the one key of SpecSameKey needs: the embedding solver for
\* a prolongation key, the projection solver for a restriction key, both for
\* an anisotropic key
SameKey == CHOOSE c \in allowed : TRUE
NeedsEmbed ==
  IF ValidCall(SameKey)
       /\ (SameKey.op = "P" \/ SameKey.rc # isotropic_refinement)
    THEN 1 ELSE 0
NeedsProject ==
  IF ValidCall(SameKey)
       /\ (SameKey.op = "R" \/ SameKey.rc # isotropic_refinement)
    THEN 1 ELSE 0

C2_ReturnedMatrixNeverChanges ==
  [][lastRet # NoRet =>
       View(Slot(prolongation', restriction', lastRet))
         = View(Slot(prolongation, restriction, lastRet))]_vars

\* C3 (as claimed): a call that starts after a call for the same key has
\* returned never takes the mutex, never invokes a solver, and returns a
\* matrix with the values the earlier call returned.
C3_LaterCallsLockFreeSameValues ==
  /\ [](\A t \in Threads :
          warm[t] # Cold => pc[t] \in {"check", "return"})
  /\ [][\A t \in Threads :
          (warm[t] # Cold /\ Leaves(t, "return")) =>
             lastRet'.view = warm[t]]_vars

\* C4 (as claimed): an isotropic miss fills the matrices of all children of
\* the isotropic case in the accessor's own table and changes nothing else;
\* an anisotropic miss fills both tables for the children of the requested
\* case and leaves every other refinement case unchanged.
IsotropicMissFrame ==
  \A t \in Threads :
    /\ Leaves(t, "compute") =>
         prolongation' = prolongation /\ restriction' = restriction
    /\ (Leaves(t, "swap") /\ req[t].op = "P") =>
         /\ \A c \in Children(isotropic_refinement) :
              View(prolongation'[isotropic_refinement][c])
                = [n |-> n_dofs_per_cell,
                   val |-> <<"P", isotropic_refinement, c>>]
         /\ \A rc \in RefCases \ {isotropic_refinement} :
              prolongation'[rc] = prolongation[rc]
         /\ restriction' = restriction
    /\ (Leaves(t, "swap") /\ req[t].op = "R") =>
         /\ \A c \in Children(isotropic_refinement) :
              View(restriction'[isotropic_refinement][c])
                = [n |-> n_dofs_per_cell,
                   val |-> <<"R", isotropic_refinement, c>>]
         /\ \A rc \in RefCases \ {isotropic_refinement} :
              restriction'[rc] = restriction[rc]
         /\ prolongation' = prolongation

C4_MissFillsOnlyRequestedCase ==
  [][/\ IsotropicMissFrame
     /\ \A t \in Threads :
          /\ (Leaves(t, "reinit") \/ Leaves(t, "embed")
                \/ Leaves(t, "project")) =>
               \A rc \in RefCases \ {req[t].rc} :
                 /\ prolongation'[rc] = prolongation[rc]
                 /\ restriction'[rc] = restriction[rc]
          /\ Leaves(t, "project") =>
               \A c \in Children(req[t].rc) :
                 /\ View(prolongation'[req[t].rc][c])
                      = [n |-> n_dofs_per_cell, val |-> <<"P", req[t].rc, c>>]
                 /\ View(restriction'[req[t].rc][c])
                      = [n |-> n_dofs_per_cell, val |-> <<"R", req[t].rc, c>>]
    ]_vars

\* C4 (amended): the isotropic part as claimed; an anisotropic miss fills
\* both tables for all children of every refinement case, the isotropic
\* case included, and not only for the requested case.
C4_MissFillsBatch ==
  [][/\ IsotropicMissFrame
     /\ \A t \in Threads :
          Leaves(t, "project") => AllSolved(prolongation', restriction')
    ]_vars

\* an anisotropic miss has just finished its computations while the
\* isotropic prolongation matrices were already there from an earlier miss
C4_Witness ==
  \E t \in Threads :
    /\ pc[t] = "unlock"
    /\ req[t].rc # isotropic_refinement
    /\ nEmbed = 2
    /\ AllSolved(prolongation, restriction)

\* C5: the only threads inside the compute-and-publish section are holders
\* of the one mutex, so there is never more than one of them, whichever
\* accessors they are in; and every step that changes a prolongation or
\* restriction matrix is taken by the thread that holds the mutex.
C5_WritesUnderOneLock ==
  /\ [](/\ \A t \in Threads : InSection(t) => mutex = t
        /\ Cardinality({t \in Threads : InSection(t)}) <= 1)
  /\ [][(prolongation' # prolongation \/ restriction' # restriction) =>
          /\ mutex \in Threads
          /\ mutex' = mutex
          /\ pc'[mutex] # pc[mutex]
          /\ \A t \in Threads \ {mutex} : pc'[t] = pc[t]]_vars

\* one thread publishes inside get_prolongation_matrix while another one is
\* blocked on the mutex inside get_restriction_matrix
C5_Witness ==
  \E t1, t2 \in Threads :
    /\ pc[t1] \in {"swap", "embed"} /\ req[t1].op = "P"
    /\ pc[t2] = "lock" /\ req[t2].op = "R"

\* ================================================ polynomial: properties
\* the element's constructor has run
Built == stage = "element"

\* evaluate() has been called
Evaluated == eval_point # << >>

Axes == 0 .. (fe_dim - 1)

\* number of polynomials of one component
SubSize == (fe_degree + 2) * (fe_degree + 1) ^ (fe_dim - 1)

\* number of basis functions
FullSize == fe_dim * SubSize

\* x-fastest lexicographic index of the node with multi-index a on a grid
\* with size[c] nodes along axis c
LexIndex(a, size) ==
  IF fe_dim = 2
    THEN a[0] + size[0] * a[1]
    ELSE a[0] + size[0] * (a[1] + size[1] * a[2])

\* nodes per axis of component d's tensor grid
GridSize(d) ==
  [c \in Axes |-> IF c = d THEN fe_degree + 2 ELSE fe_degree + 1]

\* the nodes of component d's tensor grid
GridNodes(d) ==
  {a \in [Axes -> 0 .. (fe_degree + 1)] : \A c \in Axes : a[c] < GridSize(d)[c]}

\* the multi-index of a node after the cyclic rotation by d
Rotated(a, d) == [c \in Axes |-> a[(c + d) % fe_dim]]

\* C9: renumber_aniso[0] is the identity on [0, n_sub); for d > 0,
\* renumber_aniso[d] is a bijection on [0, n_sub) that sends the
\* lexicographic index of every node of component d's grid to the stored
\* space's index of the node rotated cyclically by d; a second construction
\* with the same (dim, degree) yields the same tables
C9_RenumberAnisoIsRotation ==
  Built =>
    /\ DOMAIN renumber_aniso = Axes
    /\ \A d \in Axes : DOMAIN renumber_aniso[d] = 0 .. (SubSize - 1)
    /\ \A i \in 0 .. (SubSize - 1) : renumber_aniso[0][i] = i
    /\ \A d \in Axes \ {0} :
         /\ {renumber_aniso[d][i] : i \in 0 .. (SubSize - 1)}
              = 0 .. (SubSize - 1)
         /\ \A a \in GridNodes(d) :
              renumber_aniso[d][LexIndex(a, GridSize(d))]
                = LexIndex(Rotated(a, d), GridSize(0))
    /\ renumber_aniso
         = PolynomialsRaviartThomasNodal(fe_dim, fe_degree).renumber_aniso

\* a 3-D element of degree 1 is built and its table for d = 1 is a
\* permutation other than the identity
C9_Witness ==
  /\ Built
  /\ fe_dim = 3
  /\ fe_degree = 1
  /\ renumber_aniso[1][1] = 6
  /\ renumber_aniso[2][1] = 3

\* the coordinate stems from the (degree + 2)-point Gauss-Lobatto rule
FromHighRule(x) == x[1] = "QGaussLobatto" /\ x[2] = fe_degree + 2

\* the coordinate stems from the (degree + 1)-point Gauss-Lobatto rule, or
\* is the single midpoint when degree = 0
FromLowRule(x) ==
  IF fe_degree = 0
    THEN x[1] = "QMidpoint"
    ELSE x[1] = "QGaussLobatto" /\ x[2] = fe_degree + 1

\* C6: get_polynomial_support_points returns exactly N points, every
\* hierarchic index is assigned exactly once, and the point of every basis
\* function of component d has its axis-d coordinate from the
\* (degree + 2)-point rule and its other coordinates from the low rule
C6_SupportPointsFollowComponentAxis ==
  Built =>
    /\ DOMAIN generalized_support_points = 0 .. (FullSize - 1)
    /\ \A h \in 0 .. (FullSize - 1) :
         Cardinality({m \in 0 .. (FullSize - 1) :
                        lexicographic_to_hierarchic[m] = h}) = 1
    /\ \A d \in Axes, i \in 0 .. (SubSize - 1) :
         LET point == generalized_support_points[
                        lexicographic_to_hierarchic[i + d * SubSize]]
         IN  \A c \in Axes :
               IF c = d THEN FromHighRule(point[c])
                        ELSE FromLowRule(point[c])

\* C7 as stated: for dim = 3 every face-interior dof carries the value 1
\* in all 8 columns of the sign table, so that the orientation = false and
\* the orientation = true cases hold the same value
C7_AllEightCasesSame ==
  (Built /\ fe_dim = 3) =>
    \A dof \in DOMAIN quad_sign_table, c \in 0 .. 7 :
      quad_sign_table[dof][c] = 1

\* C7 amended: for dim = 3 construction writes 1 into the 4 columns with
\* orientation = false (0..3) of every face-interior dof and leaves the 4
\* columns with orientation = true (4..7) as the base class filled them
C7_OrientationFalseCasesSet ==
  (Built /\ fe_dim = 3) =>
    /\ DOMAIN quad_sign_table = 0 .. ((fe_degree + 1) * (fe_degree + 1) - 1)
    /\ \A dof \in DOMAIN quad_sign_table, c \in 0 .. 7 :
         quad_sign_table[dof][c] = IF c < 4 THEN 1 ELSE sign_fill

\* a 3-D element is built over a base-class fill of 0: the two groups of
\* columns differ
C7_Witness ==
  /\ Built
  /\ fe_dim = 3
  /\ fe_degree = 1
  /\ sign_fill = 0
  /\ quad_sign_table[3][3] = 1
  /\ quad_sign_table[3][4] = 0

\* the permuted index of the claim's table, case by case
PermutedIndex(c, n, i, j) ==
  IF c = 0 THEN j + i * n
  ELSE IF c = 1 THEN i + (n - 1 - j) * n
  ELSE IF c = 2 THEN (n - 1 - j) + (n - 1 - i) * n
  ELSE IF c = 3 THEN (n - 1 - i) + j * n
  ELSE IF c = 4 THEN i + j * n
  ELSE IF c = 5 THEN j + (n - 1 - i) * n
  ELSE IF c = 6 THEN (n - 1 - i) + (n - 1 - j) * n
  ELSE (n - 1 - j) + i * n

\* C8: for dim = 3 every index table entry, as a signed integer, is the
\* permuted index minus local, negative deltas included; all deltas are 0
\* for n = 1; for dim < 3 the index and sign tables stay as they were
C8_IndexDeltas ==
  Built =>
    IF fe_dim = 3
      THEN LET n == fe_degree + 1
           IN  /\ DOMAIN quad_index_table = 0 .. (n * n - 1)
               /\ \A dof \in 0 .. (n * n - 1), c \in 0 .. 7 :
                    /\ quad_index_table[dof][c]
                         = PermutedIndex(c, n, dof % n, dof \div n) - dof
                    /\ n = 1 => quad_index_table[dof][c] = 0
      ELSE /\ quad_index_table = QuadTable(fe_dim, fe_degree, 0)
           /\ quad_sign_table = QuadTable(fe_dim, fe_degree, sign_fill)

\* a 3-D element with n = 2 is built and its table holds a negative delta
C8_Witness ==
  /\ Built
  /\ fe_dim = 3
  /\ fe_degree = 1
  /\ quad_index_table[1][0] = 1
  /\ quad_index_table[2][0] = 0 - 1
  /\ quad_index_table[3][2] = 0 - 3

\* C10: for every component d and every i, evaluate writes into component
\* d of basis function lexicographic_to_hierarchic[i + d * n_sub] the
\* stored value renumber_aniso[d][i] taken at the point rotated by d, and
\* each stored derivative entry (d1, ..., dk), k = 1..4, at the indices
\* ((d1 + d) mod dim, ..., (dk + d) mod dim); no entry of the component's
\* tensors keeps its old content
C10_EvaluateRotatesAndUnrotates ==
  Evaluated =>
    \A k \in 0 .. max_order :
      eval_out[k] # << >> =>
        /\ DOMAIN eval_out[k] = 0 .. (FullSize - 1)
        /\ \A d \in Axes, i \in 0 .. (SubSize - 1) :
             LET h == lexicographic_to_hierarchic[i + d * SubSize]
                 p == [c \in 1 .. fe_dim |->
                         eval_point[((c - 1 + d) % fe_dim) + 1]]
             IN  /\ \A dirs \in [1 .. k -> Axes] :
                      eval_out[k][h][d][[j \in 1 .. k |->
                                           (dirs[j] + d) % fe_dim]]
                        = <<"stored", renumber_aniso[d][i], p, dirs>>
                 /\ \A target \in [1 .. k -> Axes] :
                      eval_out[k][h][d][target] # OldEntry

\* a 3-D evaluation at a point with distinct coordinates has filled the
\* fourth derivatives
C10_Witness ==
  /\ Evaluated
  /\ fe_dim = 3
  /\ fe_degree = 1
  /\ eval_point = <<1, 2, 3>>
  /\ eval_out[0] # << >>
  /\ eval_out[4] # << >>

\* C11: n_polynomials(d) = dim * (d + 2) * (d + 1)^(dim - 1); the dpo
\* vector holds 0 per vertex, 0 per edge that is not a face,
\* (d + 1)^(dim - 1) per face and dim * d * (d + 1)^(dim - 1) for the
\* interior; 2 * dim faces plus the interior make n_polynomials(d), which
\* is the number of generalized support points
C11_DofCounts ==
  Built =>
    LET dpo == get_rt_dpo_vector(fe_dim, fe_degree)
        per_face == (fe_degree + 1) ^ (fe_dim - 1)
    IN  /\ n_polynomials(fe_dim, fe_degree)
             = fe_dim * (fe_degree + 2) * per_face
        /\ DOMAIN dpo = 0 .. fe_dim
        /\ dpo[0] = 0
        /\ fe_dim = 3 => dpo[1] = 0
        /\ dpo[fe_dim - 1] = per_face
        /\ dpo[fe_dim] = fe_dim * fe_degree * per_face
        /\ 2 * fe_dim * dpo[fe_dim - 1] + dpo[fe_dim]
             = n_polynomials(fe_dim, fe_degree)
        /\ Cardinality(DOMAIN generalized_support_points)
             = n_dofs_of_cell(fe_dim, fe_degree)

\* a 3-D element of degree 1 with 4 dofs per face, 12 in the interior and
\* 36 support points is built
C11_Witness ==
  /\ Built
  /\ fe_dim = 3
  /\ fe_degree = 1
  /\ get_rt_dpo_vector(fe_dim, fe_degree) = [o \in 0 .. 3 |->
                                               IF o = 2 THEN 4
                                               ELSE IF o = 3 THEN 12 ELSE 0]
  /\ Cardinality(DOMAIN generalized_support_points) = 36
  /\ Cardinality(DOMAIN quad_index_table) = 4

\* the latest call of a const member was a call of fn
Called(fn) == fe_call.fn = fn

\* C12: against an element of this family compare_for_domination returns
\* 'this dominates' exactly when this degree is lower, 'either' exactly
\* when the degrees are equal and 'other dominates' exactly when it is
\* higher, for every codim; the call with the two elements exchanged
\* returns the exchanged outcome; against FE_Nothing it returns 'other
\* dominates' if that is dominating and 'no requirements' otherwise
C12_DominationByDegree ==
  (Called("compare_for_domination") /\ fe_call.arg <= fe_dim) =>
    LET other == fe_call.other
        Exchanged(v) ==
          IF v = "this_element_dominates" THEN "other_element_dominates"
          ELSE IF v = "other_element_dominates"
            THEN "this_element_dominates"
          ELSE v
    IN  /\ other.kind = "FE_RaviartThomasNodal" =>
             /\ fe_ret.status = "ok"
             /\ fe_ret.value = "this_element_dominates"
                  <=> fe_degree < other.degree
             /\ fe_ret.value = "either_element_can_dominate"
                  <=> fe_degree = other.degree
             /\ fe_ret.value = "other_element_dominates"
                  <=> fe_degree > other.degree
             /\ compare_for_domination(fe_dim, other.degree,
                                       FamilyElement(fe_degree), fe_call.arg)
                  = Returned(Exchanged(fe_ret.value))
        /\ other.kind = "FE_Nothing" =>
             fe_ret = Returned(IF other.dominating
                                 THEN "other_element_dominates"
                                 ELSE "no_requirements")

\* the element of degree 1 was compared with the one of degree 2 in 3-D
C12_Witness ==
  /\ Called("compare_for_domination")
  /\ fe_dim = 3
  /\ fe_degree = 1
  /\ fe_call.other = FamilyElement(2)
  /\ fe_call.arg = 1
  /\ fe_ret = Returned("this_element_dominates")

\* the identity list the hp identities are to return for a and b dofs per
\* face
ExpectedIdentities(a, b) ==
  IF a = b THEN [i \in 1 .. a |-> <<i - 1, i - 1>>]
  ELSE IF a % 2 = 1 /\ b % 2 = 1 THEN <<<<a \div 2, b \div 2>>>>
  ELSE << >>

\* C13: hp_line_dof_identities (dim = 2 only) and hp_quad_dof_identities
\* (dim = 3 only) between two elements of this family with a and b dofs
\* per face return all (i, i) when a = b, the one pair (a div 2, b div 2)
\* when a # b are both odd and nothing otherwise; the list for the
\* exchanged elements is the list with each pair exchanged
C13_FaceIdentities ==
  ((Called("hp_line_dof_identities") \/ Called("hp_quad_dof_identities"))
     /\ fe_call.other.kind = "FE_RaviartThomasNodal") =>
    LET other == fe_call.other
        a == (fe_degree + 1) ^ (fe_dim - 1)
        b == (other.degree + 1) ^ (fe_dim - 1)
        face_dim == IF Called("hp_line_dof_identities") THEN 2 ELSE 3
        exchanged ==
          IF Called("hp_line_dof_identities")
            THEN hp_line_dof_identities(fe_dim, other.degree,
                                        FamilyElement(fe_degree))
            ELSE hp_quad_dof_identities(fe_dim, other.degree,
                                        FamilyElement(fe_degree), 0)
    IN  /\ fe_ret.status = "ok"
        /\ fe_dim # face_dim => fe_ret.value = << >>
        /\ fe_dim = face_dim => fe_ret.value = ExpectedIdentities(a, b)
        /\ exchanged
             = Returned([i \in DOMAIN fe_ret.value |->
                           <<fe_ret.value[i][2], fe_ret.value[i][1]>>])

\* the quad identities of the elements of degree 0 and 2 in 3-D are the
\* one pair of middle dofs (0, 4)
C13_Witness ==
  /\ Called("hp_quad_dof_identities")
  /\ fe_dim = 3
  /\ fe_degree = 0
  /\ fe_call.other = FamilyElement(2)
  /\ fe_ret = Returned(<<<<0, 4>>>>)

\* C14: hp_vertex_dof_identities is empty for this family and FE_Nothing;
\* the line and quad identities are empty for FE_Nothing; all four
\* functions fail with ExcNotImplemented for any other element
C14_EmptyOrNotImplemented ==
  /\ (Called("hp_vertex_dof_identities")
        /\ fe_call.other.kind \in {"FE_RaviartThomasNodal", "FE_Nothing"})
       => fe_ret = Returned(<< >>)
  /\ ((Called("hp_line_dof_identities") \/ Called("hp_quad_dof_identities"))
        /\ fe_call.other.kind = "FE_Nothing")
       => fe_ret = Returned(<< >>)
  /\ ((\/ Called("hp_vertex_dof_identities")
       \/ Called("hp_line_dof_identities")
       \/ Called("hp_quad_dof_identities")
       \/ Called("compare_for_domination") /\ fe_call.arg <= fe_dim)
        /\ fe_call.other \in ForeignElements)
       => fe_ret.status = "ExcNotImplemented"

\* the vertex identities were asked for against an element of another
\* family
C14_Witness ==
  /\ Called("hp_vertex_dof_identities")
  /\ fe_call.other \in ForeignElements
  /\ fe_ret.status = "ExcNotImplemented"

\* ------------------------------------------- face interpolation matrices
InterpolationCalls ==
  {"get_face_interpolation_matrix", "get_subface_interpolation_matrix"}

InterpolationCallsDim1 ==
  {"get_face_interpolation_matrix<1>", "get_subface_interpolation_matrix<1>"}

\* the per-face dof count of an element of this family with constructor
\* argument q, as C11 gives it
FaceDofs(q) == (q + 1) ^ (fe_dim - 1)

\* no entry of the caller's matrix has been written
Unwritten(matrix) ==
  \A ij \in DOMAIN matrix.entry :
    matrix.entry[ij].writes = 0 /\ matrix.entry[ij].value = OldValue

\* C16: the face and the subface interpolation matrix fail when the source
\* element is not of this family, when its per-face dof count is below
\* this element's, and always in dim = 1; a failed call has written no
\* entry; a call that passes the checks leaves a matrix with one row per
\* source face dof and one column per face dof of this element, every
\* entry of which has been written exactly once
C16_InterpolationFailsOrFillsOnce ==
  /\ fe_call.fn \in InterpolationCallsDim1 =>
       fe_ret.status # "ok" /\ Unwritten(fe_ret.value)
  /\ fe_call.fn \in InterpolationCalls =>
       /\ fe_call.other.kind # "FE_RaviartThomasNodal" =>
            fe_ret.status = "ExcInterpolationNotImplemented"
       /\ (/\ fe_call.other.kind = "FE_RaviartThomasNodal"
           /\ FaceDofs(fe_call.other.degree) < FaceDofs(fe_degree)) =>
            fe_ret.status # "ok"
       /\ fe_ret.status # "ok" =>
            fe_ret.value = FullMatrix(fe_call.rows, fe_call.cols)
       /\ fe_ret.status = "ok" =>
            /\ fe_call.other.kind = "FE_RaviartThomasNodal"
            /\ fe_ret.value.m = FaceDofs(fe_call.other.degree)
            /\ fe_ret.value.n = FaceDofs(fe_degree)
            /\ DOMAIN fe_ret.value.entry
                 = (0 .. (FaceDofs(fe_call.other.degree) - 1))
                     \X (0 .. (FaceDofs(fe_degree) - 1))
            /\ \A ij \in DOMAIN fe_ret.value.entry :
                 /\ fe_ret.value.entry[ij].writes = 1
                 /\ fe_ret.value.entry[ij].value # OldValue

\* a subface matrix between a 3-D element and a source of higher degree
\* has been filled
C16_Witness ==
  /\ fe_call.fn = "get_subface_interpolation_matrix"
  /\ fe_dim = 3
  /\ fe_degree = 1
  /\ fe_call.other = FamilyElement(2)
  /\ fe_ret.status = "ok"
  /\ fe_ret.value.entry[<<8, 3>>].writes = 1

\* ------------------------------------------------ quad index permutation
\* the case number of (face_orientation, face_flip, face_rotation)
OrientationCase(orientation, flip, rotation) ==
  (IF orientation THEN 4 ELSE 0) + (IF flip THEN 2 ELSE 0)
    + (IF rotation THEN 1 ELSE 0)

\* the quad dof that `dof` is mapped to in case c: dof + delta(dof, c)
Adjusted(c, dof) == dof + quad_index_table[dof][c]

\* C20: for each of the 8 face-orientation cases the map local -> local +
\* delta(local, case) of a 3-D element is a bijection of 0 .. n*n - 1 onto
\* itself; the cases (T, F, T) and (T, T, T) are inverse to each other and
\* each of the other six cases is its own inverse
C20_IndexMapsAreBijections ==
  (Built /\ fe_dim = 3) =>
    LET n     == fe_degree + 1
        Local == 0 .. (n * n - 1)
        TFT   == OrientationCase(TRUE, FALSE, TRUE)
        TTT   == OrientationCase(TRUE, TRUE, TRUE)
    IN  /\ DOMAIN quad_index_table = Local
        /\ \A c \in 0 .. 7 :
             /\ \A dof \in Local : Adjusted(c, dof) \in Local
             /\ \A a \in Local : \A b \in Local :
                  Adjusted(c, a) = Adjusted(c, b) => a = b
             /\ {Adjusted(c, dof) : dof \in Local} = Local
        /\ \A dof \in Local :
             /\ Adjusted(TTT, Adjusted(TFT, dof)) = dof
             /\ Adjusted(TFT, Adjusted(TTT, dof)) = dof
        /\ \A c \in (0 .. 7) \ {TFT, TTT} : \A dof \in Local :
             Adjusted(c, Adjusted(c, dof)) = dof

\* a 3-D element with n = 2 is built; the two rotations move dof 0 to
\* different places, so neither is its own inverse
C20_Witness ==
  /\ Built
  /\ fe_dim = 3
  /\ fe_degree = 1
  /\ Adjusted(5, 0) = 2
  /\ Adjusted(7, 0) = 1
  /\ Adjusted(5, Adjusted(5, 0)) # 0

\* ------------------------------------------------- evaluate: frame effect
\* lexicographic_to_hierarchic is a bijection on 0 .. N - 1
NumberingIsBijection ==
  /\ DOMAIN lexicographic_to_hierarchic = 0 .. (FullSize - 1)
  /\ {lexicographic_to_hierarchic[x] : x \in 0 .. (FullSize - 1)}
       = 0 .. (FullSize - 1)

\* the blocks d whose loop stores into hierarchic index h
BlocksWriting(h) ==
  {d \in Axes :
     \E i \in 0 .. (SubSize - 1) :
       lexicographic_to_hierarchic[i + d * SubSize] = h}

\* C21: evaluate stores, for the basis functions of block d, into vector
\* component d of each requested output entry only and leaves the other
\* dim - 1 components of the entry as the caller passed them; a vector
\* passed with size 0 stays empty while the others are filled; with
\* lexicographic_to_hierarchic a bijection, each of the N hierarchic
\* indices is written for exactly one component
C21_EvaluateWritesOneComponent ==
  (Evaluated /\ NumberingIsBijection) =>
    \A k \in 0 .. max_order :
      IF k \notin eval_sized
        THEN eval_out[k] = << >>
        ELSE /\ DOMAIN eval_out[k] = 0 .. (FullSize - 1)
             /\ \A h \in 0 .. (FullSize - 1) :
                  /\ Cardinality(BlocksWriting(h)) = 1
                  /\ \A comp \in Axes : \A target \in [1 .. k -> Axes] :
                       IF comp \in BlocksWriting(h)
                         THEN eval_out[k][h][comp][target] # OldEntry
                         ELSE eval_out[k][h][comp][target] = OldEntry

\* a 3-D evaluation with the values and the second derivatives requested
\* and the other vectors passed empty: entry 0 has its x component
\* written and its y component as passed
C21_Witness ==
  /\ Evaluated
  /\ NumberingIsBijection
  /\ fe_dim = 3
  /\ fe_degree = 1
  /\ eval_sized = {0, 2}
  /\ eval_out[1] = << >>
  /\ eval_out[2][0][0][<<0, 0>>] # OldEntry
  /\ eval_out[2][0][1][<<0, 0>>] = OldEntry

\* ------------------------- generalized support point values to dof values
\* the counts of a cell, as C11 gives them
FaceDofCount == (fe_degree + 1) ^ (fe_dim - 1)
InteriorCount == fe_dim * fe_degree * FaceDofCount
FirstInteriorIndex == 2 * fe_dim * FaceDofCount
CellDofCount == FirstInteriorIndex + InteriorCount

\* the component of support_point_values[k] that dof k takes
ComponentOfDof(k) ==
  IF k < FirstInteriorIndex
    THEN unit_normal_direction(k \div FaceDofCount)
    ELSE (k - FirstInteriorIndex) \div (InteriorCount \div fe_dim)

\* the conversion is inside one of its two loops
InConversionLoop ==
  Converting /\ fe_ret.status \in {"face_loop", "interior_loop"}

\* the conversion has returned
Converted == Converting /\ fe_ret.status = "ok"

\* C22: for dim 2 and 3 and every degree the conversion terminates and
\* assigns every nodal value exactly once: face dof k takes component
\* unit_normal_direction[k div dofs_per_face] of support_point_values[k],
\* interior dof k takes component (k - first_interior_index) div
\* (interior_count / dim); the face loop ends with fbase = 2 * dim *
\* dofs_per_face, the interior loop with fbase = the number of cell dofs,
\* and for degree 0 the interior loop is not entered
C22_ConversionAssignsEachDofOnce ==
  /\ [](Converting =>
          /\ fe_ret.status # "ExcInternalError"
          /\ \A k \in DOMAIN fe_ret.value.nodal_values :
               fe_ret.value.nodal_values[k].writes <= 1
          /\ fe_ret.status \in {"interior_loop", "ok"} =>
               /\ fe_ret.value.face_end = FirstInteriorIndex
               /\ fe_ret.value.istep * fe_dim = InteriorCount
          /\ fe_degree = 0 => fe_ret.value.entered = 0
          /\ fe_ret.status = "ok" =>
               /\ fe_ret.value.fbase = CellDofCount
               /\ DOMAIN fe_ret.value.nodal_values = 0 .. (CellDofCount - 1)
               /\ \A k \in 0 .. (CellDofCount - 1) :
                    /\ fe_ret.value.nodal_values[k].writes = 1
                    /\ fe_ret.value.nodal_values[k].value
                         = <<"support_point_value", k, ComponentOfDof(k)>>)
  /\ InConversionLoop ~> Converted

\* the conversion of a 3-D element of degree 1 has returned after three
\* iterations of the interior loop
C22_Witness ==
  /\ Converted
  /\ fe_dim = 3
  /\ fe_degree = 1
  /\ fe_ret.value.entered = 3
  /\ fe_ret.value.nodal_values[CellDofCount - 1].value
       = <<"support_point_value", CellDofCount - 1, 2>>

\* ================================================ cache: more properties
\* thread t is inside a call whose arguments fail an assertion
InFailingCall(t) == req[t] # NoReq /\ ~ValidCall(req[t])

\* C15: a call with the refinement case 'no refinement' or with a child
\* index not below the number of children fails before the lock is taken
\* and before any cache entry is read or written: the failing thread goes
\* nowhere but to the failure, never holds the mutex, and its steps leave
\* both caches and the mutex as they are
C15_PreconditionFailureTouchesNothing ==
  [][\A t \in Threads :
       /\ InFailingCall(t) => (pc[t] = "failed" /\ mutex # t)
       /\ (pc[t] # pc'[t] /\ (pc[t] = "failed" \/ pc'[t] = "failed")) =>
            /\ prolongation' = prolongation
            /\ restriction' = restriction
            /\ mutex' = mutex
            /\ mutex' # t
            /\ nEmbed' = nEmbed
            /\ nProject' = nProject]_vars

\* a call with 'no refinement' and a call with a child index one past the
\* last child are failing while the cache holds matrices
C15_Witness ==
  /\ pc[1] = "failed"
  /\ req[1].rc = no_refinement
  /\ pc[2] = "failed"
  /\ req[2].rc = isotropic_refinement
  /\ req[2].child = n_children(isotropic_refinement)
  /\ prolongation[isotropic_refinement][0].n = n_dofs_per_cell
  /\ mutex = 0

\* the values the solver leaves in the matrix of key k
FinalView(k) == [n |-> n_dofs_per_cell, val |-> <<k.op, k.rc, k.child>>]

\* C18 (as claimed): under every interleaving of calls with valid keys, the
\* matrix a call hands back holds its final computed values at the moment
\* of the return, the lock-free fast path included: it is never empty,
\* resized but not yet computed, or still being filled by another thread
C18_ReturnedMatrixIsFinal ==
  [][\A t \in Threads :
       Leaves(t, "return") =>
         View(Slot(prolongation, restriction, req[t])) = FinalView(req[t])]_vars

\* C19: under fair scheduling every call with a valid key returns; the
\* mutex is held by a thread exactly while that thread is between the
\* lock_guard and an exit of the locked section (the early return after
\* the re-check included), and a thread inside the locked section can
\* always take its next step, so it waits for nothing
C19_EveryValidCallReturns ==
  /\ [](\A t \in Threads :
          /\ mutex = t <=> InSection(t)
          /\ InSection(t) => ENABLED ThreadStep(t))
  /\ \A t \in Threads :
       (req[t] # NoReq /\ ValidCall(req[t])) ~> (req[t] = NoReq)

\* one thread leaves the locked section by the early return while the
\* other waits for the mutex
C19_Witness ==
  /\ pc[1] = "early"
  /\ mutex = 1
  /\ pc[2] = "lock"

====
